---- MODULE Spec2Model ----
(***************************************************************************)
(* Rate-limit storages of hono-crud: MemoryRateLimitStorage                *)
(* (src/src/rate-limit/storage/memory.ts) and RedisRateLimitStorage        *)
(* (src/unnamed/part_003), with the callers that await their results.      *)
(* Time is the wall clock in milliseconds; it advances over the instants   *)
(* of Instants.  Further sections model the cache-key helpers              *)
(* (src/unnamed/part_004), MemoryLoggingStorage, the storage resolution    *)
(* helpers, the API key and multi-tenant middlewares and registerCrud;     *)
(* each has its own variables and its own specification.                   *)
(***************************************************************************)
EXTENDS Integers, Sequences, FiniteSets, TLC

\* ---------------------------------------------------------------- bounds
NumSlots == 2
MaxCalls == 5
MaxLimit == 3
MaxFaults == 1

Keys == {"a", "b"}
Windows == {1000}
SeqKeys == {"a"}
Slots == 1..NumSlots
Insts == {1, 2}
Instants == {0, 100, 200, 300, 500, 999, 1001, 1100}
ConcInstants == {0, 999, 1000}
StaleInstants == {500}

None == -1
Off == <<None>>

VARIABLES
  backend,        \* "memory" or "redis"
  clock,          \* Date.now()
  objs,           \* heap of the entry objects of the in-memory storage
  storage,        \* MemoryRateLimitStorage.storage: key -> object id, 0 = absent
  expirations,    \* MemoryRateLimitStorage.expirations: key -> ms, None = absent
  pc,             \* position of every caller slot
  call,           \* the call a slot is making or has made
  obs,            \* count the caller read from the entry when it resumed
  client,         \* which optional methods the Redis client has, and whether eval works
  rkv,            \* the Redis server: key -> value
  rexp,           \* the Redis server: key -> time the key expires, None = no expiry
  hasLua,         \* RedisRateLimitStorage.hasLua of every storage instance
  probes,         \* history: eval('return 1') calls issued per storage instance
  faults,         \* history: eval calls that failed in transit
  nCalls,         \* storage calls started so far
  incCalls,       \* history: increment calls made per key
  firstInc,       \* history: clock reading of the first increment per key
  incW,           \* history: window lengths passed to increment per key
  pure,           \* history: the key was only ever touched by increment
  scen4,          \* history: counts returned along the fixed-window scenario
  scen5,          \* history: lengths returned along the sliding-window scenario
  prev,           \* history: operation and key of the call before the latest one
  last,           \* history: operation and key of the latest call started
  swept,          \* history: clock of the latest cleanup with no write since
  shadow,         \* history: the entry the increments and resets made add up to
  raced,          \* history: a key ran out on the server under a call in progress
  cleanupInterval,   \* memory storage: the sweep period it was constructed with
  cleanupIntervalId, \* memory storage: "timer" while the sweep timer is set
  destroys,       \* history: number of destroy() calls made
  tock,           \* history: flips at every run of the sweep timer's callback
  parked,         \* a second MemoryRateLimitStorage: its maps and its timer
  cur,            \* which of the two memory storages the calls are made on
  inserted,       \* history: the timestamps addTimestamp was given since the key
                  \* was fresh, and whether each was the clock's reading
  options,        \* cache keys: the CacheKeyOptions a key is generated from
  cacheKey,       \* cache keys: the generated key, a sequence of characters' runs
  parsed,         \* cache keys: what parseCacheKey returned for the key
  stage,          \* cache keys: "options", "generated", "parsed", "pattern", "matched"
  patternOptions, \* cache keys: the InvalidationPatternOptions of a pattern
  pattern,        \* cache keys: the invalidation pattern created
  matches,        \* cache keys: what matchesPattern(cacheKey, pattern) returned
  entriesById,    \* logging storage: the entries, <<id, timestamp>>, one per id
  entryIds,       \* logging storage: the ids, newest first
  maxEntries,     \* logging storage: the limit given at construction
  logged,         \* logging storage: the ids stored so far, oldest first
  aged,           \* logging storage: the last deleteOlderThan, or NoAged
  ctxVar,         \* storage resolution: the context variable rateLimitStorage
  globalStorage,  \* storage resolution: the global rate-limit storage
  resolved,       \* storage resolution: the last resolveRateLimitStorage call
  request,        \* API key auth: the request, the config and the key table
  authPc,         \* API key auth: where the middleware stands
  apiKey,         \* API key auth: the key extracted, then its hash
  ctxAuth,        \* API key auth: the context variables set
  authOut,        \* API key auth: what was thrown and whether next() ran
  endpoints,      \* registerCrud: the names of the endpoints supplied
  routes,         \* registerCrud: the routes of the app, in the order registered
  registered,     \* registerCrud: whether registerCrud has returned
  tenantReq,      \* multiTenant: the options and what the request carries
  tenantPc,       \* multiTenant: where the middleware stands
  tenantId,       \* multiTenant: the tenant id extracted
  tenantCtx,      \* multiTenant: the value under contextKey
  tenantOut,      \* multiTenant: how the handler ended and whether next() was called
  sweepW,         \* history: the windowMs values increment was given since the key was fresh
  dropped,        \* history: a get or a cleanup has deleted the key's entry since
  others,          \* a second set of options for generateCacheKey
  otherKey,       \* the key generated from the second set
  storePc,        \* where a store call stands: idle, while
  pending         \* the entry of the store call under way or last returned

memVars == <<objs, storage, expirations>>
redisVars == <<client, rkv, rexp, hasLua, probes, faults>>
histVars == <<incCalls, firstInc, incW, pure, scen4, scen5>>
afterVars == <<prev, last, swept>>
lifeVars == <<cleanupInterval, cleanupIntervalId, destroys, tock>>
frameVars == <<parked, cur>>
cacheVars == <<options, cacheKey, parsed, stage>>
patternVars == <<patternOptions, pattern, matches>>
logVars == <<entriesById, entryIds, maxEntries, logged, aged>>
resolveVars == <<ctxVar, globalStorage, resolved>>
authVars == <<request, authPc, apiKey, ctxAuth, authOut>>
crudVars == <<endpoints, routes, registered>>
tenantVars == <<tenantReq, tenantPc, tenantId, tenantCtx, tenantOut>>
sweepVars == <<sweepW, dropped>>
pairVars == <<others, otherKey>>
storeVars == <<storePc, pending>>
moreVars == <<patternVars, logVars,
             resolveVars,
             authVars,
             crudVars,
             tenantVars,
             sweepVars,
             pairVars,
             storeVars>>
extVars == <<afterVars, shadow, raced, lifeVars, frameVars, inserted, cacheVars,
             moreVars>>
vars == <<backend, clock, objs, storage, expirations, pc, call, obs,
          client, rkv, rexp, hasLua, probes, faults, nCalls,
          incCalls, firstInc, incW, pure, scen4, scen5,
          prev, last, swept, shadow, raced,
          cleanupInterval, cleanupIntervalId, destroys, tock, parked, cur,
          inserted, options, cacheKey, parsed, stage,
          patternOptions, pattern, matches,
          entriesById, entryIds, maxEntries, logged, aged,
          ctxVar, globalStorage, resolved,
          request, authPc, apiKey, ctxAuth, authOut,
          endpoints, routes, registered,
          tenantReq, tenantPc, tenantId, tenantCtx, tenantOut,
          sweepW, dropped,
          others, otherKey,
          storePc, pending>>

\* ------------------------------------------------------------ entry values
NoEntry == [kind |-> "none", count |-> 0, windowStart |-> 0, timestamps |-> <<>>]

FixedWindowEntry(c, ws) ==
  [kind |-> "fixed", count |-> c, windowStart |-> ws, timestamps |-> <<>>]

SlidingWindowEntry(ts) ==
  [kind |-> "sliding", count |-> 0, windowStart |-> 0, timestamps |-> ts]

MaxObj == Cardinality(Keys) + NumSlots

Min(a, b) == IF a < b THEN a ELSE b

\* slip: a timestamp on the window floor is kept
RECURSIVE FilterAfterInclusive(_, _)
FilterAfterInclusive(ts, floor) ==
  IF ts = <<>> THEN <<>>
  ELSE IF Head(ts) >= floor THEN <<Head(ts)>> \o FilterAfterInclusive(Tail(ts), floor)
       ELSE FilterAfterInclusive(Tail(ts), floor)

\* Array.prototype.filter with the predicate t > floor
RECURSIVE FilterAfter(_, _)
FilterAfter(ts, floor) ==
  IF ts = <<>> THEN <<>>
  ELSE IF Head(ts) > floor THEN <<Head(ts)>> \o FilterAfter(Tail(ts), floor)
       ELSE FilterAfter(Tail(ts), floor)

Range(s) == {s[i] : i \in DOMAIN s}

\* the entry object a reference designates
Deref(heap, ref) == IF ref = 0 THEN NoEntry ELSE heap[ref]

Referenced(i, store, calls) ==
  (\E k \in Keys : store[k] = i) \/ (\E c \in Slots : calls[c].ref = i)

\* objects no map slot and no returned promise refers to are collected
Collect(heap, store, calls) ==
  [i \in 1..MaxObj |-> IF Referenced(i, store, calls) THEN heap[i] ELSE NoEntry]

FreeId(store, calls) ==
  CHOOSE i \in 1..MaxObj :
    /\ ~Referenced(i, store, calls)
    /\ \A j \in 1..(i-1) : Referenced(j, store, calls)

NoCall == [op |-> "none", key |-> "a", w |-> 0, now |-> 0, ref |-> 0,
           pre |-> NoEntry, ret |-> NoEntry, removed |-> 0,
           inst |-> 0, path |-> "none", expired |-> FALSE]

\* what a caller keeps of a call once it has read the result
Spent(c) ==
  [NoCall EXCEPT !.op = call[c].op, !.key = call[c].key, !.path = call[c].path,
                 !.inst = call[c].inst]

\* ------------------------------------------------------------ Redis values
RNone == [type |-> "none", text |-> <<>>, members |-> {}]
RString(text) == [type |-> "string", text |-> text, members |-> {}]
RZset(members) == IF members = {} THEN RNone
                  ELSE [type |-> "zset", text |-> <<>>, members |-> members]

\* a key with a time to live is gone once the clock reaches that time
Lapsed(exp, now) == exp # None /\ now >= exp

\* JSON.stringify / cjson.encode of an entry, and JSON.parse / cjson.decode
JsonStringify(e) ==
  IF e.kind = "fixed" THEN <<"count", e.count, "windowStart", e.windowStart>>
  ELSE <<"timestamps", e.timestamps>>

JsonParse(text) ==
  IF Len(text) = 4 /\ text[1] = "count" /\ text[3] = "windowStart"
  THEN FixedWindowEntry(text[2], text[4])
  ELSE IF Len(text) = 2 /\ text[1] = "timestamps"
       THEN SlidingWindowEntry(text[2])
       ELSE NoEntry

\* a string that is no JSON text: JSON.parse and cjson.decode raise on it
Garbage == <<"not json">>

Malformed(val) == val.type = "string" /\ JsonParse(val.text) = NoEntry

\* Math.ceil(ms / 1000), then `ttl > 0 ? ttl : 1`
SecondMs == 1000
CeilSeconds(ms) == (ms + SecondMs - 1) \div SecondMs
TtlSeconds(ms) == IF CeilSeconds(ms) > 0 THEN CeilSeconds(ms) ELSE 1

\* the members of a sorted set in score order (member = score = timestamp)
RECURSIVE SortedSeq(_)
SortedSeq(set) ==
  IF set = {} THEN <<>>
  ELSE LET m == CHOOSE x \in set : \A y \in set : x <= y
       IN <<m>> \o SortedSeq(set \ {m})

\* ------------------------------------------------------------------- Init
InitHistory ==
  /\ nCalls = 0
  /\ incCalls = [k \in Keys |-> 0]
  /\ firstInc = [k \in Keys |-> None]
  /\ incW = [k \in Keys |-> {}]
  /\ pure = [k \in Keys |-> TRUE]
  /\ scen4 = <<>>
  /\ scen5 = <<>>

InitCallers ==
  /\ clock = 0
  /\ pc = [c \in Slots |-> "idle"]
  /\ call = [c \in Slots |-> NoCall]
  /\ obs = [c \in Slots |-> 0]

InitStores ==
  /\ objs = [i \in 1..MaxObj |-> NoEntry]
  /\ storage = [k \in Keys |-> 0]
  /\ expirations = [k \in Keys |-> None]
  /\ rkv = [k \in Keys |-> RNone]
  /\ rexp = [k \in Keys |-> None]
  /\ hasLua = [i \in Insts |-> "null"]
  /\ probes = [i \in Insts |-> 0]

NoOp == [op |-> "none", key |-> "a"]

InitAfter == prev = NoOp /\ last = NoOp /\ swept = None

InitShadow == shadow = NoEntry /\ raced = FALSE

\* `cleanupInterval = options?.cleanupInterval ?? 60000`
DefaultCleanupInterval == 60000

\* slip: the constructor sets no timer
ConstructedUnarmed(interval) ==
  /\ cleanupInterval = interval
  /\ cleanupIntervalId = "null"
  /\ destroys = 0 /\ tock = FALSE

\* constructor: `if (cleanupInterval > 0) this.cleanupIntervalId = setInterval(...)`
Constructed(interval) ==
  /\ cleanupInterval = interval
  /\ cleanupIntervalId = IF interval > 0 THEN "timer" ELSE "null"
  /\ destroys = 0 /\ tock = FALSE

\* a second storage, constructed with the default options and not yet used
InitOther ==
  /\ parked = [storage |-> [k \in Keys |-> NoEntry],
              expirations |-> [k \in Keys |-> None],
              cleanupIntervalId |-> "timer"]
  /\ cur = 1

NoneInserted == [ts |-> <<>>, onClock |-> TRUE]

\* the result object of parseCacheKey before any field is set
NoResult ==
  [prefix |-> "", tableName |-> "", method |-> "", userId |-> "",
   hasParams |-> FALSE, params |-> {}, hasQuery |-> FALSE, query |-> {}]

\* no invalidation pattern in play
NoPattern ==
  /\ patternOptions = [given |-> FALSE, method |-> "", hasId |-> FALSE, id |-> "",
                       userId |-> ""]
  /\ pattern = <<>>
  /\ matches = FALSE

\* no deleteOlderThan has returned; ran: it was the last call, ever: it was called
NoAged == [ran |-> FALSE, ever |-> FALSE, cutoff |-> 0, before |-> {}, deleted |-> 0]

\* a logging storage that nothing uses
NoLog ==
  /\ entriesById = {}
  /\ entryIds = <<>>
  /\ maxEntries = 1
  /\ logged = <<>>
  /\ aged = NoAged

\* nothing configured, nothing resolved
NoResolved == [called |-> FALSE, withCtx |-> FALSE, explicit |-> "undefined",
               inCtx |-> "undefined", global |-> "null", result |-> "null"]

NoResolve ==
  /\ ctxVar = "undefined"
  /\ globalStorage = "null"
  /\ resolved = NoResolved

\* no request to an API key middleware
NullEntry == [id |-> "null", userId |-> "", active |-> FALSE, expiresAt |-> 0]
NoRequest == [header |-> "", query |-> "", queryParam |-> "null",
              entry |-> NullEntry, updateLastUsed |-> "undefined"]
NoCtxAuth == [userId |-> "undefined", authType |-> "undefined"]
NoAuthOut == [thrown |-> "none", next |-> FALSE, updated |-> FALSE]

NoAuth ==
  /\ request = NoRequest
  /\ authPc = "idle"
  /\ apiKey = "null"
  /\ ctxAuth = NoCtxAuth
  /\ authOut = NoAuthOut

\* an app that registerCrud was not called on
NoCrud ==
  /\ endpoints = {}
  /\ routes = <<>>
  /\ registered = FALSE

\* no request to a multi-tenant middleware
NoTenantReq == [source |-> "header", required |-> TRUE, onMissing |-> FALSE,
                validate |-> "undefined", header |-> "undefined", path |-> "undefined",
                query |-> "undefined", jwt |-> "undefined", custom |-> "undefined"]
NoTenantOut == [result |-> "none", next |-> FALSE]

NoTenant ==
  /\ tenantReq = NoTenantReq
  /\ tenantPc = "idle"
  /\ tenantId = "undefined"
  /\ tenantCtx = "undefined"
  /\ tenantOut = NoTenantOut

\* no increment has been followed
NoSweep == sweepW = {} /\ dropped = FALSE

\* no second set of options
NoPair ==
  /\ others = [prefix |-> "", tableName |-> "users", method |-> "GET",
              params |-> {}, query |-> {}, keyFields |-> {}, userId |-> ""]
  /\ otherKey = <<>>

\* no store call is under way
NoStoring == storePc = "idle" /\ pending = <<>>

\* the parts of the library other than domain d are not in use
IdleBut(d) ==
  /\ d = "pattern" \/ NoPattern
  /\ d = "log" \/ NoLog
  /\ d = "resolve" \/ NoResolve
  /\ d = "auth" \/ NoAuth
  /\ d = "crud" \/ NoCrud
  /\ d = "tenant" \/ NoTenant
  /\ d = "sweep" \/ NoSweep
  /\ d = "pair" \/ NoPair
  /\ d = "store" \/ NoStoring

\* an action of the domains D leaves the other domains alone
Keep(D) ==
  /\ IF "pattern" \in D THEN TRUE ELSE UNCHANGED patternVars
  /\ IF "log" \in D THEN TRUE ELSE UNCHANGED logVars
  /\ IF "resolve" \in D THEN TRUE ELSE UNCHANGED resolveVars
  /\ IF "auth" \in D THEN TRUE ELSE UNCHANGED authVars
  /\ IF "crud" \in D THEN TRUE ELSE UNCHANGED crudVars
  /\ IF "tenant" \in D THEN TRUE ELSE UNCHANGED tenantVars
  /\ IF "sweep" \in D THEN TRUE ELSE UNCHANGED sweepVars
  /\ IF "pair" \in D THEN TRUE ELSE UNCHANGED pairVars
  /\ IF "store" \in D THEN TRUE ELSE UNCHANGED storeVars

\* cache keys play no part in the storages
NoCacheKey ==
  /\ options = [prefix |-> "", tableName |-> "users", method |-> "GET",
                params |-> {}, query |-> {}, keyFields |-> {}, userId |-> ""]
  /\ cacheKey = <<>>
  /\ parsed = NoResult
  /\ stage = "none"

InitExt ==
  /\ InitAfter /\ InitShadow /\ Constructed(DefaultCleanupInterval) /\ InitOther
  /\ inserted = NoneInserted
  /\ NoCacheKey
  /\ IdleBut("none")

NoClient == [eval |-> FALSE, zset |-> FALSE, scripts |-> FALSE]

\* the clients a RedisRateLimitStorage can be given: eval and the sorted-set
\* methods are optional, and a server may refuse scripts
Clients ==
  {cl \in [eval : BOOLEAN, zset : BOOLEAN, scripts : BOOLEAN] : cl.scripts => cl.eval}

\* clients whose server runs every script it is sent
SoundClients == {cl \in Clients : cl.scripts = cl.eval}

InitMem == backend = "memory" /\ client = NoClient /\ faults = 0

\* ------------------------------------------------------------------ clock
\* the clock moves to the next instant; the server drops the keys whose time to
\* live has run out, and a call in progress on such a key is marked
TickOver(instants) ==
  /\ \E t \in instants : t > clock
  /\ clock' = CHOOSE t \in instants : t > clock /\ \A u \in instants : u > clock => t <= u
  /\ rkv' = [k \in Keys |-> IF Lapsed(rexp[k], clock') THEN RNone ELSE rkv[k]]
  /\ rexp' = [k \in Keys |-> IF Lapsed(rexp[k], clock') THEN None ELSE rexp[k]]
  /\ call' = [c \in Slots |->
                IF pc[c] \notin {"idle", "returned", "done"}
                   /\ Lapsed(rexp[call[c].key], clock')
                THEN [call[c] EXCEPT !.expired = TRUE]
                ELSE call[c]]
  /\ UNCHANGED <<backend, memVars, pc, obs, client, hasLua, probes, faults,
                 nCalls, histVars>>

CanStart(c) == pc[c] \in {"idle", "done"} /\ nCalls < MaxCalls

\* ---------------------------------------------------------------- history
Scenario4 == <<0, 100, 200, 300, 1100>>
Scenario5 == <<0, 500, 999, 1001>>
ScenarioKey == "a"
ScenarioWindow == SecondMs

\* a scenario advances when the call is its next request and is switched off
\* by any other call on its key
Advance(scen, times, k, fits, now, value) ==
  IF k # ScenarioKey THEN scen
  ELSE IF scen # Off /\ fits /\ Len(scen) < Len(times) /\ times[Len(scen) + 1] = now
       THEN Append(scen, value)
       ELSE Off

HistIncrement(k, w, now) ==
  /\ incCalls' = [incCalls EXCEPT ![k] = IF pure[k] THEN @ + 1 ELSE @]
  /\ firstInc' = [firstInc EXCEPT ![k] = IF pure[k] /\ @ = None THEN now ELSE @]
  /\ incW' = [incW EXCEPT ![k] = IF pure[k] THEN @ \cup {w} ELSE @]
  /\ UNCHANGED pure

\* the increments of a key are followed until another call touches the key
HistOther(k) ==
  /\ pure' = [pure EXCEPT ![k] = FALSE]
  /\ incCalls' = [incCalls EXCEPT ![k] = 0]
  /\ firstInc' = [firstInc EXCEPT ![k] = None]
  /\ incW' = [incW EXCEPT ![k] = {}]

\* a request of a scenario is made and answered at the scenario's instant
ScenIncrement(k, w, now, count) ==
  /\ scen4' = Advance(scen4, Scenario4, k, w = ScenarioWindow /\ now = clock, now, count)
  /\ scen5' = Advance(scen5, Scenario5, k, FALSE, now, 0)

ScenAddTimestamp(k, w, now, len) ==
  /\ scen4' = Advance(scen4, Scenario4, k, FALSE, now, 0)
  /\ scen5' = Advance(scen5, Scenario5, k, w = ScenarioWindow /\ now = clock, now, len)

ScenOther(k) ==
  /\ scen4' = Advance(scen4, Scenario4, k, FALSE, 0, 0)
  /\ scen5' = Advance(scen5, Scenario5, k, FALSE, 0, 0)

ScenOff == scen4' = Off /\ scen5' = Off

NoHist == UNCHANGED <<incCalls, firstInc, incW, pure>>
NoScen == UNCHANGED <<scen4, scen5>>

\* --------------------------------------------------- MemoryRateLimitStorage
\* slip: the window length is left out of the comparison
WithinWindowNoLength(existing, w, now) ==
  existing.kind = "fixed" /\ now < existing.windowStart

\* slip: the window end is taken as still inside the window
WithinWindowInclusive(existing, w, now) ==
  existing.kind = "fixed" /\ now <= existing.windowStart + w

\* increment: `existing && 'count' in existing`, then `now < windowEnd`
WithinWindow(existing, w, now) ==
  existing.kind = "fixed" /\ now < existing.windowStart + w

\* increment: the body has no await, so it runs in the caller's turn; the
\* promise it returns resolves to the stored object itself.
MemIncrement(c, k, w) ==
  LET now == clock
      existing == Deref(objs, storage[k])
      hit == WithinWindow(existing, w, now)
      id == IF hit THEN storage[k] ELSE FreeId([storage EXCEPT ![k] = 0], call)
      entry == IF hit THEN [existing EXCEPT !.count = @ + 1]
               ELSE FixedWindowEntry(1, now)
  IN /\ backend = "memory"
     /\ CanStart(c)
     /\ storage' = [storage EXCEPT ![k] = id]
     /\ expirations' = IF hit THEN expirations
                       ELSE [expirations EXCEPT ![k] = now + w]
     /\ call' = [call EXCEPT ![c] =
                   [NoCall EXCEPT !.op = "increment", !.key = k, !.w = w, !.now = now,
                                  !.ref = id, !.pre = existing, !.ret = entry]]
     /\ objs' = Collect([objs EXCEPT ![id] = entry], storage', call')
     /\ pc' = [pc EXCEPT ![c] = "returned"]
     /\ nCalls' = nCalls + 1
     /\ HistIncrement(k, w, now)
     /\ ScenIncrement(k, w, now, entry.count)
     /\ UNCHANGED <<backend, clock, obs, redisVars>>

\* slip: the expiration is the timestamp itself
AddExpirationNoWindow(currentTime, w) == currentTime

\* addTimestamp: `this.expirations.set(key, currentTime + windowMs)`
AddExpiration(currentTime, w) == currentTime + w

\* addTimestamp: the returned object is a fresh wrapper around the array
MemAddTimestamp(c, k, w, now) ==
  LET currentTime == now
      windowStart == currentTime - w
      existing == Deref(objs, storage[k])
      hit == existing.kind = "sliding"
      timestamps == IF hit
                    THEN Append(FilterAfter(existing.timestamps, windowStart), currentTime)
                    ELSE <<currentTime>>
      id == IF hit THEN storage[k] ELSE FreeId([storage EXCEPT ![k] = 0], call)
  IN /\ backend = "memory"
     /\ CanStart(c)
     /\ storage' = [storage EXCEPT ![k] = id]
     /\ expirations' = [expirations EXCEPT ![k] = AddExpiration(currentTime, w)]
     /\ call' = [call EXCEPT ![c] =
                   [NoCall EXCEPT !.op = "addTimestamp", !.key = k, !.w = w,
                                  !.now = currentTime, !.pre = existing,
                                  !.ret = SlidingWindowEntry(timestamps)]]
     /\ objs' = Collect([objs EXCEPT ![id] = SlidingWindowEntry(timestamps)],
                        storage', call')
     /\ pc' = [pc EXCEPT ![c] = "returned"]
     /\ nCalls' = nCalls + 1
     /\ HistOther(k)
     /\ ScenAddTimestamp(k, w, currentTime, Len(timestamps))
     /\ UNCHANGED <<backend, clock, obs, redisVars>>

\* get: `expiration && Date.now() > expiration`
Overdue(expiration, now) == expiration # None /\ expiration # 0 /\ now > expiration

\* slip: reset empties the whole map
MemResetAll(c, k) ==
  /\ backend = "memory"
  /\ CanStart(c)
  /\ storage' = [j \in Keys |-> 0]
  /\ expirations' = [j \in Keys |-> None]
  /\ call' = [call EXCEPT ![c] =
                [NoCall EXCEPT !.op = "reset", !.key = k, !.now = clock,
                               !.pre = Deref(objs, storage[k])]]
  /\ objs' = Collect(objs, storage', call')
  /\ pc' = [pc EXCEPT ![c] = "returned"]
  /\ nCalls' = nCalls + 1
  /\ HistOther(k)
  /\ ScenOther(k)
  /\ UNCHANGED <<backend, clock, obs, redisVars>>

MemGet(c, k) ==
  LET entry == Deref(objs, storage[k])
      drop == storage[k] # 0 /\ Overdue(expirations[k], clock)
  IN /\ backend = "memory"
     /\ CanStart(c)
     /\ storage' = IF drop THEN [storage EXCEPT ![k] = 0] ELSE storage
     /\ expirations' = IF drop THEN [expirations EXCEPT ![k] = None] ELSE expirations
     /\ call' = [call EXCEPT ![c] =
                   [NoCall EXCEPT !.op = "get", !.key = k, !.now = clock, !.pre = entry,
                                  !.ret = IF drop THEN NoEntry ELSE entry]]
     /\ objs' = Collect(objs, storage', call')
     /\ pc' = [pc EXCEPT ![c] = "returned"]
     /\ nCalls' = nCalls + 1
     /\ NoHist
     /\ ScenOther(k)
     /\ UNCHANGED <<backend, clock, obs, redisVars>>

\* slip: reset forgets the expiry map
MemResetEntryOnly(c, k) ==
  /\ backend = "memory"
  /\ CanStart(c)
  /\ storage' = [storage EXCEPT ![k] = 0]
  /\ call' = [call EXCEPT ![c] =
                [NoCall EXCEPT !.op = "reset", !.key = k, !.now = clock,
                               !.pre = Deref(objs, storage[k])]]
  /\ objs' = Collect(objs, storage', call')
  /\ pc' = [pc EXCEPT ![c] = "returned"]
  /\ nCalls' = nCalls + 1
  /\ HistOther(k)
  /\ ScenOther(k)
  /\ UNCHANGED <<backend, clock, obs, redisVars, expirations>>

MemReset(c, k) ==
  /\ backend = "memory"
  /\ CanStart(c)
  /\ storage' = [storage EXCEPT ![k] = 0]
  /\ expirations' = [expirations EXCEPT ![k] = None]
  /\ call' = [call EXCEPT ![c] =
                [NoCall EXCEPT !.op = "reset", !.key = k, !.now = clock,
                               !.pre = Deref(objs, storage[k])]]
  /\ objs' = Collect(objs, storage', call')
  /\ pc' = [pc EXCEPT ![c] = "returned"]
  /\ nCalls' = nCalls + 1
  /\ HistOther(k)
  /\ ScenOther(k)
  /\ UNCHANGED <<backend, clock, obs, redisVars>>

\* slip: a key is swept at its expiration time already
SweptInclusive(now) == {k \in Keys : expirations[k] # None /\ now >= expirations[k]}

\* slip: cleanup deletes every key that has an expiration
SweptAll(now) == {k \in Keys : expirations[k] # None}

\* cleanup: every key whose expiration lies strictly before now is deleted
Swept(now) == {k \in Keys : expirations[k] # None /\ now > expirations[k]}

MemCleanup(c) ==
  LET gone == Swept(clock)
  IN /\ backend = "memory"
     /\ CanStart(c)
     /\ storage' = [k \in Keys |-> IF k \in gone THEN 0 ELSE storage[k]]
     /\ expirations' = [k \in Keys |-> IF k \in gone THEN None ELSE expirations[k]]
     /\ call' = [call EXCEPT ![c] =
                   [NoCall EXCEPT !.op = "cleanup", !.now = clock,
                                  !.removed = Cardinality(gone)]]
     /\ objs' = Collect(objs, storage', call')
     /\ pc' = [pc EXCEPT ![c] = "returned"]
     /\ nCalls' = nCalls + 1
     /\ NoHist
     /\ ScenOff
     /\ UNCHANGED <<backend, clock, obs, redisVars>>

\* ---------------------------------------------------- RedisRateLimitStorage
\* Every await of a client call is a position of the call: the other calls and
\* the clock move between a request and its reply.  A command applied to a key
\* that holds a value of another type answers as for an absent key, which is
\* what get() is written for (zcount on the text of a fixed-window entry is 0).
Active(c) == pc[c] \notin {"idle", "returned", "done"}

StoredAlgo(k) ==
  IF rkv[k].type = "zset" THEN "sliding"
  ELSE IF rkv[k].type = "string"
       THEN (IF JsonParse(rkv[k].text).kind = "fixed" THEN "fixed"
             ELSE IF JsonParse(rkv[k].text).kind = "sliding" THEN "sliding"
             ELSE "none")
       ELSE "none"

\* a key belongs to one policy, hence to one algorithm
Compatible(k, op, other) ==
  /\ StoredAlgo(k) \in {"none", IF op = "increment" THEN "fixed" ELSE "sliding"}
  /\ \A d \in Slots : ~(Active(d) /\ call[d].key = k /\ call[d].op = other)

\* get(): the sorted-set probe comes first when the client has the methods
GetPc == IF client.zset THEN "zcount" ELSE "read"

\* where a call continues when checkLuaSupport() answers false
FallbackPc(op) == IF op = "addTimestamp" THEN "zrem" ELSE GetPc

\* checkLuaSupport(), up to its first await
CheckLuaSupport(c, i, op) ==
  IF hasLua[i] # "null"
  THEN /\ pc' = [pc EXCEPT ![c] = IF hasLua[i] = "true" THEN "script" ELSE FallbackPc(op)]
       /\ UNCHANGED <<hasLua, probes>>
  ELSE IF ~client.eval
       THEN /\ hasLua' = [hasLua EXCEPT ![i] = "false"]
            /\ pc' = [pc EXCEPT ![c] = FallbackPc(op)]
            /\ UNCHANGED probes
       ELSE /\ pc' = [pc EXCEPT ![c] = "probe"]
            /\ probes' = [probes EXCEPT ![i] = @ + 1]
            /\ UNCHANGED hasLua

RedisIncrement(c, i, k, w) ==
  /\ backend = "redis"
  /\ CanStart(c)
  /\ Compatible(k, "increment", "addTimestamp")
  /\ call' = [call EXCEPT ![c] =
                [NoCall EXCEPT !.op = "increment", !.key = k, !.w = w,
                               !.now = clock, !.inst = i]]
  /\ CheckLuaSupport(c, i, "increment")
  /\ nCalls' = nCalls + 1
  /\ HistIncrement(k, w, clock)
  /\ NoScen
  /\ UNCHANGED <<backend, clock, obs, memVars, client, rkv, rexp, faults>>

RedisAddTimestamp(c, i, k, w, now) ==
  /\ backend = "redis"
  /\ CanStart(c)
  /\ Compatible(k, "addTimestamp", "increment")
  /\ call' = [call EXCEPT ![c] =
                [NoCall EXCEPT !.op = "addTimestamp", !.key = k, !.w = w,
                               !.now = now, !.inst = i]]
  /\ IF client.zset
     THEN CheckLuaSupport(c, i, "addTimestamp")
     ELSE pc' = [pc EXCEPT ![c] = GetPc] /\ UNCHANGED <<hasLua, probes>>
  /\ nCalls' = nCalls + 1
  /\ HistOther(k)
  /\ NoScen
  /\ UNCHANGED <<backend, clock, obs, memVars, client, rkv, rexp, faults>>

RedisGet(c, i, k) ==
  /\ backend = "redis"
  /\ CanStart(c)
  /\ call' = [call EXCEPT ![c] =
                [NoCall EXCEPT !.op = "get", !.key = k, !.now = clock, !.inst = i]]
  /\ pc' = [pc EXCEPT ![c] = GetPc]
  /\ nCalls' = nCalls + 1
  /\ UNCHANGED <<backend, clock, obs, memVars, redisVars, histVars>>

RedisReset(c, i, k) ==
  /\ backend = "redis"
  /\ CanStart(c)
  /\ call' = [call EXCEPT ![c] =
                [NoCall EXCEPT !.op = "reset", !.key = k, !.now = clock, !.inst = i]]
  /\ pc' = [pc EXCEPT ![c] = "del"]
  /\ nCalls' = nCalls + 1
  /\ HistOther(k)
  /\ NoScen
  /\ UNCHANGED <<backend, clock, obs, memVars, redisVars>>

RedisCleanup(c, i) ==
  /\ backend = "redis"
  /\ CanStart(c)
  /\ call' = [call EXCEPT ![c] =
                [NoCall EXCEPT !.op = "cleanup", !.now = clock, !.inst = i]]
  /\ pc' = [pc EXCEPT ![c] = "returned"]
  /\ nCalls' = nCalls + 1
  /\ NoHist
  /\ ScenOff
  /\ UNCHANGED <<backend, clock, obs, memVars, redisVars>>

\* the reply to eval('return 1'): hasLua is assigned after the await
ProbeReply(c, ok) ==
  /\ pc[c] = "probe"
  /\ ok => client.scripts
  /\ ~ok => (~client.scripts \/ faults < MaxFaults)
  /\ faults' = IF ~ok /\ client.scripts THEN faults + 1 ELSE faults
  /\ hasLua' = [hasLua EXCEPT ![call[c].inst] = IF ok THEN "true" ELSE "false"]
  /\ pc' = [pc EXCEPT ![c] = IF ok THEN "script" ELSE FallbackPc(call[c].op)]
  /\ UNCHANGED <<backend, clock, obs, memVars, client, rkv, rexp, probes, call,
                 nCalls, histVars>>

\* slip: the script compares with the window start
LuaWithinWindowNoLength(data, w, now) ==
  data.kind = "fixed" /\ now < data.windowStart

\* FIXED_WINDOW_LUA: `if data then ... if now < window_end then`
LuaWithinWindow(data, w, now) ==
  data.kind = "fixed" /\ now < data.windowStart + w

\* slip: the new window goes on counting from the old entry
LuaEntryKeepsCount(data, w, now) ==
  IF LuaWithinWindow(data, w, now) THEN [data EXCEPT !.count = @ + 1]
  ELSE FixedWindowEntry(data.count + 1, now)

\* FIXED_WINDOW_LUA: the entry the script stores and returns
LuaEntry(data, w, now) ==
  IF LuaWithinWindow(data, w, now) THEN [data EXCEPT !.count = @ + 1]
  ELSE FixedWindowEntry(1, now)

\* FIXED_WINDOW_LUA, run by the server in one step
FixedWindowLua(val, exp, w, now, at) ==
  LET data == IF val.type = "string" THEN JsonParse(val.text) ELSE NoEntry
      hit == LuaWithinWindow(data, w, now)
      entry == LuaEntry(data, w, now)
  IN [ok |-> val.type # "zset" /\ data.kind # "sliding" /\ ~Malformed(val),
      pre |-> data,
      val |-> RString(JsonStringify(entry)),
      exp |-> IF hit THEN at + ((data.windowStart + w) - now) ELSE at + w,
      ret |-> JsonParse(JsonStringify(entry))]

\* SLIDING_WINDOW_LUA, run by the server in one step
SlidingWindowLua(val, exp, w, now, at) ==
  LET windowStart == now - w
      kept == {m \in val.members : m > windowStart} \cup {now}
  IN [ok |-> val.type # "string",
      pre |-> SlidingWindowEntry(SortedSeq(val.members)),
      val |-> RZset(kept),
      exp |-> at + w,
      ret |-> SlidingWindowEntry(SortedSeq({m \in kept : m >= windowStart}))]

RunScript(c) ==
  IF call[c].op = "increment"
  THEN FixedWindowLua(rkv[call[c].key], rexp[call[c].key], call[c].w, call[c].now, clock)
  ELSE SlidingWindowLua(rkv[call[c].key], rexp[call[c].key], call[c].w, call[c].now, clock)

ScenReturn(c, ret) ==
  IF call[c].op = "increment"
  THEN ScenIncrement(call[c].key, call[c].w, call[c].now, ret.count)
  ELSE IF call[c].op = "addTimestamp"
       THEN ScenAddTimestamp(call[c].key, call[c].w, call[c].now, Len(ret.timestamps))
       ELSE ScenOther(call[c].key)

\* the script ran and its reply arrived
ScriptReply(c) ==
  LET r == RunScript(c)
      k == call[c].key
  IN /\ pc[c] = "script"
     /\ r.ok
     /\ rkv' = [rkv EXCEPT ![k] = r.val]
     /\ rexp' = [rexp EXCEPT ![k] = r.exp]
     /\ call' = [call EXCEPT ![c].pre = r.pre, ![c].ret = r.ret, ![c].path = "script"]
     /\ pc' = [pc EXCEPT ![c] = "returned"]
     /\ ScenReturn(c, r.ret)
     /\ NoHist
     /\ UNCHANGED <<backend, clock, obs, memVars, client, hasLua, probes, faults, nCalls>>

\* eval threw: the script failed on the stored value, the request was lost, or
\* the reply was lost after the server had run the script
ScriptThrow(c, ran) ==
  LET r == RunScript(c)
      k == call[c].key
  IN /\ pc[c] = "script"
     /\ ran => r.ok
     /\ r.ok => faults < MaxFaults
     /\ faults' = IF r.ok THEN faults + 1 ELSE faults
     /\ rkv' = IF ran THEN [rkv EXCEPT ![k] = r.val] ELSE rkv
     /\ rexp' = IF ran THEN [rexp EXCEPT ![k] = r.exp] ELSE rexp
     /\ UNCHANGED call
     /\ pc' = [pc EXCEPT ![c] = FallbackPc(call[c].op)]
     /\ UNCHANGED <<backend, clock, obs, memVars, client, hasLua, probes, nCalls, histVars>>

\* slip: the fallback compares with the window start
FallbackWithinWindowNoLength(existing, w, now) ==
  existing.kind = "fixed" /\ now < existing.windowStart

\* increment without script: `existing && 'count' in existing`, `now < windowEnd`
FallbackWithinWindow(existing, w, now) ==
  existing.kind = "fixed" /\ now < existing.windowStart + w

\* slip: the fallback counts the call twice inside a running window
FallbackEntryTwice(existing, w, now) ==
  IF FallbackWithinWindow(existing, w, now) THEN [existing EXCEPT !.count = @ + 2]
  ELSE FixedWindowEntry(1, now)

\* increment without script: the entry that is written and returned
FallbackEntry(existing, w, now) ==
  IF FallbackWithinWindow(existing, w, now) THEN [existing EXCEPT !.count = @ + 1]
  ELSE FixedWindowEntry(1, now)

\* get() has its entry: the caller of get() goes on
AfterGet(c, existing) ==
  LET op == call[c].op
      w == call[c].w
      now == call[c].now
      bumped == FallbackEntry(existing, w, now)
      timestamps == IF existing.kind = "sliding"
                    THEN Append(FilterAfter(existing.timestamps, now - w), now)
                    ELSE <<now>>
  IN IF op = "get"
     THEN /\ call' = [call EXCEPT ![c].pre = existing, ![c].ret = existing,
                                  ![c].path = "nonatomic"]
          /\ pc' = [pc EXCEPT ![c] = "returned"]
          /\ ScenOther(call[c].key)
     ELSE /\ call' = [call EXCEPT ![c].pre = existing,
                        ![c].ret = IF op = "increment" THEN bumped
                                   ELSE SlidingWindowEntry(timestamps)]
          /\ pc' = [pc EXCEPT ![c] = "write"]
          /\ NoScen

\* get(): zcount(fullKey, '-inf', '+inf')
Zcount(c) ==
  LET val == rkv[call[c].key]
      count == IF val.type = "zset" THEN Cardinality(val.members) ELSE 0
  IN /\ pc[c] = "zcount"
     /\ pc' = [pc EXCEPT ![c] = IF count > 0 THEN "zrangeAll" ELSE "read"]
     /\ UNCHANGED <<backend, clock, obs, memVars, redisVars, call, nCalls, histVars>>

\* get(): zrangebyscore(fullKey, '-inf', '+inf')
ZrangeAll(c) ==
  LET val == rkv[call[c].key]
  IN /\ pc[c] = "zrangeAll"
     /\ AfterGet(c, SlidingWindowEntry(SortedSeq(val.members)))
     /\ NoHist
     /\ UNCHANGED <<backend, clock, obs, memVars, redisVars, nCalls>>

\* get(): client.get(fullKey), then JSON.parse
Read(c) ==
  LET val == rkv[call[c].key]
  IN /\ pc[c] = "read"
     /\ AfterGet(c, IF val.type = "string" THEN JsonParse(val.text) ELSE NoEntry)
     /\ NoHist
     /\ UNCHANGED <<backend, clock, obs, memVars, redisVars, nCalls>>

\* client.set(fullKey, JSON.stringify(entry), { ex })
Write(c) ==
  LET k == call[c].key
      hit == call[c].op = "increment"
             /\ FallbackWithinWindow(call[c].pre, call[c].w, call[c].now)
      ttl == IF hit THEN TtlSeconds((call[c].pre.windowStart + call[c].w) - call[c].now)
             ELSE TtlSeconds(call[c].w)
  IN /\ pc[c] = "write"
     /\ rkv' = [rkv EXCEPT ![k] = RString(JsonStringify(call[c].ret))]
     /\ rexp' = [rexp EXCEPT ![k] = clock + ttl * SecondMs]
     /\ call' = [call EXCEPT ![c].path = "nonatomic"]
     /\ pc' = [pc EXCEPT ![c] = "returned"]
     /\ ScenReturn(c, call[c].ret)
     /\ NoHist
     /\ UNCHANGED <<backend, clock, obs, memVars, client, hasLua, probes, faults, nCalls>>

\* addTimestamp without script: zremrangebyscore(fullKey, '-inf', windowStart)
Zrem(c) ==
  LET k == call[c].key
      windowStart == call[c].now - call[c].w
      kept == {m \in rkv[k].members : m > windowStart}
  IN /\ pc[c] = "zrem"
     /\ rkv' = [rkv EXCEPT ![k] = IF @.type = "zset" THEN RZset(kept) ELSE @]
     /\ rexp' = [rexp EXCEPT ![k] = IF rkv[k].type = "zset" /\ kept = {} THEN None ELSE @]
     /\ call' = [call EXCEPT ![c].pre = SlidingWindowEntry(SortedSeq(rkv[k].members))]
     /\ pc' = [pc EXCEPT ![c] = "zadd"]
     /\ UNCHANGED <<backend, clock, obs, memVars, client, hasLua, probes, faults,
                    nCalls, histVars>>

\* zadd(fullKey, currentTime, String(currentTime))
\* slip: zadd leaves the new member alone in the set
ZaddAlone(c) ==
  LET k == call[c].key
  IN /\ pc[c] = "zadd"
     /\ rkv' = [rkv EXCEPT ![k] = RZset({call[c].now})]
     /\ rexp' = [rexp EXCEPT ![k] = IF rkv[k].type = "zset" THEN @ ELSE None]
     /\ pc' = [pc EXCEPT ![c] = "expire"]
     /\ UNCHANGED <<backend, clock, obs, memVars, client, hasLua, probes, faults,
                    call, nCalls, histVars>>

Zadd(c) ==
  LET k == call[c].key
  IN /\ pc[c] = "zadd"
     /\ rkv' = [rkv EXCEPT ![k] = RZset(@.members \cup {call[c].now})]
     /\ rexp' = [rexp EXCEPT ![k] = IF rkv[k].type = "zset" THEN @ ELSE None]
     /\ pc' = [pc EXCEPT ![c] = "expire"]
     /\ UNCHANGED <<backend, clock, obs, memVars, client, hasLua, probes, faults,
                    call, nCalls, histVars>>

\* slip: the expire round trip is left out
ExpireSkipped(c) ==
  /\ pc[c] = "expire"
  /\ pc' = [pc EXCEPT ![c] = "zrange"]
  /\ UNCHANGED <<backend, clock, obs, memVars, redisVars, call, nCalls, histVars>>

\* expire(fullKey, ttl)
Expire(c) ==
  LET k == call[c].key
  IN /\ pc[c] = "expire"
     /\ rexp' = [rexp EXCEPT ![k] = IF rkv[k].type = "none" THEN None
                                   ELSE clock + TtlSeconds(call[c].w) * SecondMs]
     /\ pc' = [pc EXCEPT ![c] = "zrange"]
     /\ UNCHANGED <<backend, clock, obs, memVars, client, rkv, hasLua, probes, faults,
                    call, nCalls, histVars>>

\* zrangebyscore(fullKey, windowStart, '+inf')
Zrange(c) ==
  LET k == call[c].key
      windowStart == call[c].now - call[c].w
      ret == SlidingWindowEntry(SortedSeq({m \in rkv[k].members : m >= windowStart}))
  IN /\ pc[c] = "zrange"
     /\ call' = [call EXCEPT ![c].ret = ret, ![c].path = "nonatomic"]
     /\ pc' = [pc EXCEPT ![c] = "returned"]
     /\ ScenReturn(c, ret)
     /\ NoHist
     /\ UNCHANGED <<backend, clock, obs, memVars, redisVars, nCalls>>

\* slip: reset answers without deleting the key
DelKeepsKey(c) ==
  /\ pc[c] = "del"
  /\ call' = [call EXCEPT ![c].path = "nonatomic"]
  /\ pc' = [pc EXCEPT ![c] = "returned"]
  /\ ScenOther(call[c].key)
  /\ NoHist
  /\ UNCHANGED <<backend, clock, obs, memVars, redisVars, nCalls>>

\* reset: del(fullKey)
Del(c) ==
  LET k == call[c].key
  IN /\ pc[c] = "del"
     /\ rkv' = [rkv EXCEPT ![k] = RNone]
     /\ rexp' = [rexp EXCEPT ![k] = None]
     /\ call' = [call EXCEPT ![c].path = "nonatomic"]
     /\ pc' = [pc EXCEPT ![c] = "returned"]
     /\ ScenOther(k)
     /\ NoHist
     /\ UNCHANGED <<backend, clock, obs, memVars, client, hasLua, probes, faults, nCalls>>

\* the replies an increment call waits for: the probe, the script, and the
\* get() and set() of the fallback
IncrementStep(c) ==
  \/ \E ok \in BOOLEAN : ProbeReply(c, ok)
  \/ ScriptReply(c)
  \/ Zcount(c)
  \/ Read(c)
  \/ Write(c)

\* the replies of the client calls a Redis call of any kind is waiting for
RedisStep(c) ==
  \/ IncrementStep(c)
  \/ ZrangeAll(c)
  \/ Zrem(c)
  \/ Zadd(c)
  \/ Expire(c)
  \/ Zrange(c)
  \/ Del(c)

\* the caller's continuation after `await storage.increment(...)`: it reads
\* count from the object it was handed
Resume(c) ==
  /\ pc[c] = "returned"
  /\ obs' = [obs EXCEPT ![c] =
               IF call[c].ref # 0 THEN Deref(objs, call[c].ref).count
               ELSE call[c].ret.count]
  /\ call' = [call EXCEPT ![c] = Spent(c)]
  /\ objs' = Collect(objs, storage, call')
  /\ pc' = [pc EXCEPT ![c] = "done"]
  /\ UNCHANGED <<backend, clock, storage, expirations, nCalls, redisVars, histVars>>

NowArgs == {clock} \cup {t \in StaleInstants : t < clock}

\* ------------------------------------------------------------------ views
\* the entry a key holds in the store of the backend
StoredEntry(k) ==
  IF backend = "memory" THEN Deref(objs, storage[k])
  ELSE IF rkv[k].type = "string" THEN JsonParse(rkv[k].text)
       ELSE IF rkv[k].type = "zset" THEN SlidingWindowEntry(SortedSeq(rkv[k].members))
            ELSE NoEntry

\* every increment made on k so far was made on the fresh key with one window
\* length, and that window is still running
OneWindow(k) ==
  /\ pure[k]
  /\ incCalls[k] > 0
  /\ \E w \in Windows : incW[k] = {w} /\ clock < firstInc[k] + w

IncrementsOn(k) ==
  {c \in Slots : call[c].op = "increment" /\ call[c].key = k /\ pc[c] # "idle"}

\* the count a caller has in hand: the value returned, then the value read
CountOf(c) == IF pc[c] = "done" THEN obs[c] ELSE call[c].ret.count

\* -------------------------------------------------------------------- C1
\* C1: N concurrent increments on a fresh key inside one window, every caller
\* deciding allowed = (count read on resuming) <= L: exactly min(N, L) callers
\* are allowed, whatever the interleaving.
C1_ExactlyMinAllowed ==
  \A k \in Keys, L \in 1..MaxLimit :
    LET S == IncrementsOn(k)
    IN (/\ backend = "memory"
        /\ OneWindow(k)
        /\ Cardinality(S) = incCalls[k]
        /\ \A c \in S : pc[c] = "done")
       => Cardinality({c \in S : obs[c] <= L}) = Min(incCalls[k], L)

\* -------------------------------------------------------------------- C2
\* C2: in MemoryRateLimitStorage the count stored for a key equals the number
\* of increment calls made on it inside the window, however the callers
\* overlap: no increment is lost, none is counted twice.
C2_NoLostIncrement ==
  \A k \in Keys :
    (backend = "memory" /\ OneWindow(k))
      => StoredEntry(k).kind = "fixed" /\ StoredEntry(k).count = incCalls[k]

\* two calls have returned on the same key and neither caller has resumed
C2_Witness ==
  /\ backend = "memory"
  /\ OneWindow("a")
  /\ incCalls["a"] = 2
  /\ \A c \in {1, 2} : pc[c] = "returned" /\ call[c].key = "a"
  /\ StoredEntry("a").count = 2

\* -------------------------------------------------------------------- C3
ScriptedOnly(k) ==
  /\ faults = 0
  /\ Cardinality(IncrementsOn(k)) = incCalls[k]
  /\ \A c \in IncrementsOn(k) : pc[c] \in {"returned", "done"} /\ call[c].path = "script"

\* C3: on the script path of RedisRateLimitStorage, once the increment calls of
\* several processes on one key inside one window have all returned, the stored
\* count equals the number of calls and the returned counts are pairwise
\* distinct.
C3_ScriptNoLostUpdate ==
  \A k \in Keys :
    (backend = "redis" /\ OneWindow(k) /\ ScriptedOnly(k))
      => /\ StoredEntry(k).kind = "fixed"
         /\ StoredEntry(k).count = incCalls[k]
         /\ \A c, d \in IncrementsOn(k) : c # d => CountOf(c) # CountOf(d)

\* two storage instances have both been answered by the script
C3_Witness ==
  /\ backend = "redis"
  /\ OneWindow("a")
  /\ ScriptedOnly("a")
  /\ incCalls["a"] >= 2
  /\ \E c, d \in IncrementsOn("a") :
       /\ call[c].inst # call[d].inst
       /\ pc[c] = "done" /\ pc[d] = "returned"

\* -------------------------------------------------------------------- C4
ExpectedIncrement(pre, w, now) ==
  IF pre.kind = "fixed" /\ now < pre.windowStart + w
  THEN FixedWindowEntry(pre.count + 1, pre.windowStart)
  ELSE FixedWindowEntry(1, now)

IsPrefix(s, t) == Len(s) <= Len(t) /\ \A i \in DOMAIN s : s[i] = t[i]

Scenario4Counts == <<1, 2, 3, 4, 1>>

\* C4: increment(key, windowMs) at time now returns {count: 1, windowStart: now}
\* when the key holds no fixed-window entry or now >= windowStart + windowMs,
\* and otherwise the entry with count one greater and windowStart unchanged;
\* with window 1000 the calls at 0, 100, 200, 300, 1100 return 1, 2, 3, 4, 1.
C4_IncrementResult ==
  /\ \A c \in Slots :
       (pc[c] = "returned" /\ call[c].op = "increment")
         => call[c].ret = ExpectedIncrement(call[c].pre, call[c].w, call[c].now)
  /\ scen4 # Off => IsPrefix(scen4, Scenario4Counts)

C4_Witness == scen4 = Scenario4Counts /\ backend = "redis" /\ client.eval

\* -------------------------------------------------------------------- C5
Scenario5Allowed == <<TRUE, TRUE, FALSE, TRUE>>

\* C5: sliding window, limit 2, window 1000: the requests at 0, 500, 999 are
\* allowed, allowed, denied and the request at 1001 is allowed.
C5_SlidingScenario ==
  scen5 # Off =>
    \A i \in DOMAIN scen5 : (scen5[i] <= 2) = Scenario5Allowed[i]

\* -------------------------------------------------------------------- C6
JustReturned(c, op) ==
  pc[c] # "returned" /\ pc'[c] = "returned" /\ call'[c].op = op

FreshSet(ts, w, now) == now \in Range(ts) /\ \A t \in Range(ts) : t > now - w

NoneOld(ts, w, now) == \A t \in Range(ts) : t > now - w

\* the call went through zremrangebyscore, zadd, expire and zrangebyscore as
\* four round trips, and the key ran out of its time to live in between
ExpiredBetweenRoundTrips(c) ==
  client.zset /\ call'[c].path = "nonatomic" /\ call'[c].expired

Increasing(ts) == \A i, j \in DOMAIN ts : i < j => ts[i] < ts[j]

\* C7: a key holds t1 < ... < tn with tn - t1 < windowMs; a get made at a time
\* now with now - t1 >= windowMs returns a result without t1.
C7_GetExcludesOld ==
  \A c \in Slots, w \in Windows :
    (/\ pc[c] = "returned" /\ call[c].op = "get"
     /\ call[c].pre.kind = "sliding"
     /\ Increasing(call[c].pre.timestamps)
     /\ call[c].pre.timestamps[Len(call[c].pre.timestamps)] - call[c].pre.timestamps[1] < w
     /\ call[c].now - call[c].pre.timestamps[1] >= w)
      => call[c].pre.timestamps[1] \notin Range(call[c].ret.timestamps)

\* -------------------------------------------------------------------- C8
\* C8: MemoryRateLimitStorage.get returns absent for a fixed-window entry at
\* every time now >= windowStart + windowMs, the instant from which increment
\* starts a fresh window.
C8_GetExpiredAbsent ==
  \A c \in Slots, w \in Windows :
    (/\ backend = "memory"
     /\ pc[c] = "returned" /\ call[c].op = "get"
     /\ call[c].pre.kind = "fixed"
     /\ call[c].now >= call[c].pre.windowStart + w)
      => call[c].ret = NoEntry

\* -------------------------------------------------------------------- C9
Monotone(k) ==
  LET old == StoredEntry(k)
      new == StoredEntry(k)'
  IN (old.kind = "fixed" /\ new.kind = "fixed")
       => IF new.windowStart = old.windowStart
          THEN new.count >= old.count
          ELSE new.count = 1 /\ new.windowStart > old.windowStart

FallbackWrite == \E c \in Slots : pc[c] = "write" /\ pc'[c] = "returned"

C10_ProbeOnce ==
  /\ [](\A i \in Insts : probes[i] <= 1)
  /\ [][\A i \in Insts : hasLua[i] = "false" => hasLua'[i] = "false"]_vars

\* ------------------------------------------------------------------ Next
\* the histories and the parts a specification does not follow stay as they are
Apart == UNCHANGED extVars

\* one caller at a time: every call returns and is read before the next starts;
\* the clock moves between the round trips of a call
NextSeq ==
  \/ TickOver(Instants) /\ Apart
  \/ (\E k \in SeqKeys, w \in Windows : MemIncrement(1, k, w)) /\ Apart
  \/ (\E k \in SeqKeys, w \in Windows, now \in NowArgs : MemAddTimestamp(1, k, w, now))
       /\ Apart
  \/ (\E k \in SeqKeys : MemGet(1, k)) /\ Apart
  \/ (\E k \in SeqKeys : MemReset(1, k)) /\ Apart
  \/ MemCleanup(1) /\ Apart
  \/ (\E k \in SeqKeys, w \in Windows : RedisIncrement(1, 1, k, w)) /\ Apart
  \/ (\E k \in SeqKeys, w \in Windows, now \in NowArgs :
         RedisAddTimestamp(1, 1, k, w, now)) /\ Apart
  \/ (\E k \in SeqKeys : RedisGet(1, 1, k)) /\ Apart
  \/ (\E k \in SeqKeys : RedisReset(1, 1, k)) /\ Apart
  \/ RedisCleanup(1, 1) /\ Apart
  \/ (\E ok \in BOOLEAN : ProbeReply(1, ok)) /\ Apart
  \/ ScriptReply(1) /\ Apart
  \/ Zcount(1) /\ Apart
  \/ ZrangeAll(1) /\ Apart
  \/ Read(1) /\ Apart
  \/ Write(1) /\ Apart
  \/ Zrem(1) /\ Apart
  \/ Zadd(1) /\ Apart
  \/ Expire(1) /\ Apart
  \/ Zrange(1) /\ Apart
  \/ Del(1) /\ Apart
  \/ Resume(1) /\ Apart

\* callers and storage instances are interchangeable: the next call takes the
\* first free slot, and an instance is used once the ones before it are
NextSlot(c) == pc[c] = "idle" /\ \A d \in 1..(c - 1) : pc[d] # "idle"

NextInst(i) ==
  \A j \in 1..(i - 1) : hasLua[j] # "null" \/ \E d \in Slots : call[d].inst = j

\* the entry a Redis call resolves to is parsed from the reply and belongs to
\* the caller alone, so the caller's reading of it commutes with every other
\* step: it is taken before them
Unread == backend = "redis" /\ \E c \in Slots : pc[c] = "returned"

\* callers whose calls overlap
NextConc ==
  \/ ~Unread /\ TickOver(ConcInstants) /\ Apart
  \/ (\E c \in Slots, k \in Keys, w \in Windows : NextSlot(c) /\ MemIncrement(c, k, w))
       /\ Apart
  \/ (\E c \in Slots, i \in Insts, k \in SeqKeys, w \in Windows :
         ~Unread /\ NextSlot(c) /\ NextInst(i) /\ RedisIncrement(c, i, k, w)) /\ Apart
  \/ (\E c \in Slots, ok \in BOOLEAN : ~Unread /\ ProbeReply(c, ok)) /\ Apart
  \/ (\E c \in Slots : ~Unread /\ ScriptReply(c)) /\ Apart
  \/ (\E c \in Slots : ~Unread /\ Zcount(c)) /\ Apart
  \/ (\E c \in Slots : ~Unread /\ Read(c)) /\ Apart
  \/ (\E c \in Slots : ~Unread /\ Write(c)) /\ Apart
  \/ (\E c \in Slots, ran \in BOOLEAN : ~Unread /\ ScriptThrow(c, ran)) /\ Apart
  \/ (\E c \in Slots : Resume(c)) /\ Apart

\* no call is lost in transit and every server runs the scripts it is sent
InitSeq ==
  /\ InitCallers /\ InitHistory /\ InitStores /\ InitExt
  /\ \/ InitMem
     \/ backend = "redis" /\ client \in SoundClients /\ faults = MaxFaults

\* eval may fail: the server refuses scripts, or a call is lost in transit
InitConc ==
  /\ InitCallers /\ InitHistory /\ InitStores /\ InitExt
  /\ \/ InitMem
     \/ backend = "redis" /\ client \in Clients /\ faults = 0

SpecSeq == InitSeq /\ [][NextSeq]_vars
SpecConc == InitConc /\ [][NextConc]_vars

\* ------------------------------------------------- calls that follow a call
MaxOps == 3

AfterInstants == {0, 500, 1000, 1001}

AfterRest ==
  UNCHANGED <<shadow, raced, lifeVars, frameVars, inserted, cacheVars, moreVars>>

AfterKeep == UNCHANGED afterVars /\ AfterRest

\* a call starts: the history moves on; a write ends the run of cleanups
HistStart(op, k) ==
  /\ prev' = last
  /\ last' = [op |-> op, key |-> k]
  /\ swept' = IF op = "cleanup" THEN clock
              ELSE IF op = "get" THEN swept
              ELSE None
  /\ AfterRest

AfterStart(c) == c = 1 /\ nCalls < MaxOps

\* one caller, one key, every operation of both storages, with the history of
\* the calls
NextAfter ==
  \/ TickOver(AfterInstants) /\ AfterKeep
  \/ \E k \in SeqKeys, w \in Windows :
       AfterStart(1) /\ MemIncrement(1, k, w) /\ HistStart("increment", k)
  \/ \E k \in SeqKeys, w \in Windows :
       AfterStart(1) /\ MemAddTimestamp(1, k, w, clock) /\ HistStart("addTimestamp", k)
  \/ \E k \in SeqKeys : AfterStart(1) /\ MemGet(1, k) /\ HistStart("get", k)
  \/ \E k \in SeqKeys : AfterStart(1) /\ MemReset(1, k) /\ HistStart("reset", k)
  \/ AfterStart(1) /\ MemCleanup(1) /\ HistStart("cleanup", "a")
  \/ \E k \in SeqKeys, w \in Windows :
       AfterStart(1) /\ RedisIncrement(1, 1, k, w) /\ HistStart("increment", k)
  \/ \E k \in SeqKeys, w \in Windows :
       AfterStart(1) /\ RedisAddTimestamp(1, 1, k, w, clock)
       /\ HistStart("addTimestamp", k)
  \/ \E k \in SeqKeys : AfterStart(1) /\ RedisGet(1, 1, k) /\ HistStart("get", k)
  \/ \E k \in SeqKeys : AfterStart(1) /\ RedisReset(1, 1, k) /\ HistStart("reset", k)
  \/ AfterStart(1) /\ RedisCleanup(1, 1) /\ HistStart("cleanup", "a")
  \/ (\E ok \in BOOLEAN : ProbeReply(1, ok)) /\ AfterKeep
  \/ ScriptReply(1) /\ AfterKeep
  \/ Zcount(1) /\ AfterKeep
  \/ ZrangeAll(1) /\ AfterKeep
  \/ Read(1) /\ AfterKeep
  \/ Write(1) /\ AfterKeep
  \/ Zrem(1) /\ AfterKeep
  \/ Zadd(1) /\ AfterKeep
  \/ Expire(1) /\ AfterKeep
  \/ Zrange(1) /\ AfterKeep
  \/ Del(1) /\ AfterKeep
  \/ Resume(1) /\ AfterKeep

SpecAfter == InitSeq /\ [][NextAfter]_vars

\* ------------------------------------------------------------------- C11
\* the increment that returns in this step follows a reset of its key, with no
\* call in between
IncrementAfterReset(c, k) ==
  /\ JustReturned(c, "increment")
  /\ call'[c].key = k
  /\ prev'.op = "reset" /\ prev'.key = k

\* C11: reset(key) followed immediately by increment(key, windowMs) returns
\* count 1 with windowStart equal to the time the increment read, whatever the
\* key held before, on both storages.
C11_ResetThenIncrement ==
  [][\A c \in Slots, k \in Keys :
       IncrementAfterReset(c, k)
         => call'[c].ret = FixedWindowEntry(1, call'[c].now)]_vars

\* an increment has followed a reset that followed an earlier call, and was
\* answered by the script
C11_Witness ==
  /\ backend = "redis"
  /\ pc[1] = "returned" /\ call[1].op = "increment" /\ call[1].path = "script"
  /\ prev.op = "reset" /\ prev.key = call[1].key
  /\ nCalls = 3
  /\ call[1].ret = FixedWindowEntry(1, clock)

\* ------------------------------------------------------------------- C12
\* Redis expires keys by itself: cleanup answers 0 and leaves the server alone
RedisCleanupNoOp(c) ==
  backend = "redis" => call'[c].removed = 0 /\ rkv' = rkv /\ rexp' = rexp

\* C12: a cleanup() made after an earlier cleanup(), with no increment,
\* addTimestamp or reset between the two, removes 0 entries; on
\* RedisRateLimitStorage cleanup always returns 0 and changes nothing.
C12_CleanupIdempotent ==
  [][\A c \in Slots :
       JustReturned(c, "cleanup")
         => /\ swept # None => call'[c].removed = 0
            /\ RedisCleanupNoOp(c)]_vars

\* no entry has an expiration time that the clock passed between the earlier
\* cleanup and now
NoExpiryBetween ==
  \A k \in Keys :
    expirations[k] # None => ~(swept <= expirations[k] /\ expirations[k] < clock)

\* C12 amended: as C12, provided no entry's expiration time was passed by the
\* clock between the two cleanup calls.
C12_CleanupIdempotentNoExpiry ==
  [][\A c \in Slots :
       JustReturned(c, "cleanup")
         => /\ (swept # None /\ NoExpiryBetween) => call'[c].removed = 0
            /\ RedisCleanupNoOp(c)]_vars

\* a second cleanup has found nothing to remove beside an entry still stored
C12_Witness ==
  /\ backend = "memory"
  /\ pc[1] = "returned" /\ call[1].op = "cleanup" /\ call[1].removed = 0
  /\ prev.op = "cleanup" /\ last.op = "cleanup"
  /\ storage["a"] # 0

\* ------------------------------------------------------------------- C13
\* C13: after an increment or addTimestamp call of RedisRateLimitStorage has
\* returned, on the script path, the sorted-set path and the JSON path, the key
\* it wrote carries an expiry: the call leaves no key that lives forever.
C13_KeyExpires ==
  \A c \in Slots, k \in Keys :
    (/\ backend = "redis"
     /\ pc[c] = "returned" /\ call[c].key = k
     /\ call[c].op \in {"increment", "addTimestamp"}
     /\ rkv[k] # RNone)
      => rexp[k] # None

\* the four round trips of the sorted-set path have left a key with an expiry
C13_Witness ==
  /\ backend = "redis" /\ client.zset /\ ~client.eval
  /\ pc[1] = "returned" /\ call[1].op = "addTimestamp"
  /\ rkv[call[1].key].type = "zset"
  /\ rexp[call[1].key] # None

\* ------------------------------------------------------------------- C14
\* what a sequence of increment and reset calls adds up to, whatever stores it
ShadowIncrement(w, now) ==
  shadow' = ExpectedIncrement(shadow, w, now) /\ UNCHANGED raced

ShadowReset == shadow' = NoEntry /\ UNCHANGED raced

\* the clock ran a key out on the server while a call on it was in progress
ShadowTick ==
  /\ raced' = (raced \/ \E c \in Slots : call'[c].expired /\ ~call[c].expired)
  /\ UNCHANGED shadow

EquivRest ==
  UNCHANGED <<afterVars, lifeVars, frameVars, inserted, cacheVars, moreVars>>

EquivKeep == UNCHANGED <<shadow, raced>> /\ EquivRest

\* one caller making increment and reset calls on one key with one window
NextEquiv ==
  \/ TickOver(Instants) /\ ShadowTick /\ EquivRest
  \/ \E k \in SeqKeys, w \in Windows :
       MemIncrement(1, k, w) /\ ShadowIncrement(w, clock) /\ EquivRest
  \/ \E k \in SeqKeys : MemReset(1, k) /\ ShadowReset /\ EquivRest
  \/ \E k \in SeqKeys, w \in Windows :
       RedisIncrement(1, 1, k, w) /\ ShadowIncrement(w, clock) /\ EquivRest
  \/ \E k \in SeqKeys : RedisReset(1, 1, k) /\ ShadowReset /\ EquivRest
  \/ (\E ok \in BOOLEAN : ProbeReply(1, ok)) /\ EquivKeep
  \/ ScriptReply(1) /\ EquivKeep
  \/ Zcount(1) /\ EquivKeep
  \/ Read(1) /\ EquivKeep
  \/ Write(1) /\ EquivKeep
  \/ Del(1) /\ EquivKeep
  \/ Resume(1) /\ EquivKeep

SpecEquiv == InitSeq /\ [][NextEquiv]_vars

\* C14: for a sequence of non-overlapping increment and reset calls on one key
\* with one windowMs and the same clock readings, every increment returns the
\* same {count, windowStart} on MemoryRateLimitStorage, on the script path and
\* on the fallback path of RedisRateLimitStorage: the one the sequence adds up
\* to.
C14_BackendsAgree ==
  \A c \in Slots :
    (pc[c] = "returned" /\ call[c].op = "increment") => call[c].ret = shadow

\* C14 (amended): the backends agree on every increment as long as the key's
\* time to live on the Redis server has not run out between a call of the
\* sequence reading the clock and that call's last round trip.
C14_BackendsAgreeUnexpired ==
  \A c \in Slots :
    (pc[c] = "returned" /\ call[c].op = "increment" /\ ~raced)
      => call[c].ret = shadow

\* the fallback path has counted three calls in one window
C14_Witness ==
  /\ backend = "redis" /\ ~client.eval
  /\ pc[1] = "returned" /\ call[1].op = "increment"
  /\ call[1].ret = shadow /\ shadow.count = 3 /\ call[1].now > shadow.windowStart
  /\ ~raced

\* --------------------------------------------------------- C15 and C16
MaxDestroys == 2
CleanupIntervals == {0, DefaultCleanupInterval}
LifeInstants == {0, 500, 1001, 1501}

\* slip: the timer's callback runs and deletes nothing
TimerCleanupIdle ==
  /\ backend = "memory"
  /\ cleanupIntervalId = "timer"
  /\ tock' = ~tock
  /\ UNCHANGED <<backend, clock, memVars, pc, call, obs, redisVars, nCalls,
                 histVars, afterVars, shadow, raced, frameVars, inserted, cacheVars,
                 moreVars,
                 cleanupInterval, cleanupIntervalId, destroys>>

\* the sweep timer fires: `this.cleanup().catch(() => {})`; cleanup has no
\* await, it runs to its end in the timer's callback
TimerCleanup ==
  LET gone == Swept(clock)
  IN /\ backend = "memory"
     /\ cleanupIntervalId = "timer"
     /\ storage' = [k \in Keys |-> IF k \in gone THEN 0 ELSE storage[k]]
     /\ expirations' = [k \in Keys |-> IF k \in gone THEN None ELSE expirations[k]]
     /\ objs' = Collect(objs, storage', call)
     /\ tock' = ~tock
     /\ UNCHANGED <<backend, clock, pc, call, obs, redisVars, nCalls,
                    histVars, afterVars, shadow, raced, frameVars, inserted, cacheVars,
                 moreVars,
                    cleanupInterval, cleanupIntervalId, destroys>>

\* slip: destroy clears the maps and leaves the timer set
DestroyKeepsTimer ==
  /\ backend = "memory"
  /\ destroys < MaxDestroys
  /\ storage' = [k \in Keys |-> 0]
  /\ expirations' = [k \in Keys |-> None]
  /\ objs' = Collect(objs, storage', call)
  /\ destroys' = destroys + 1
  /\ UNCHANGED <<backend, clock, pc, call, obs, redisVars, nCalls,
                 histVars, afterVars, shadow, raced, frameVars, inserted, cacheVars,
                 moreVars,
                 cleanupInterval, cleanupIntervalId, tock>>

\* destroy(): `if (this.cleanupIntervalId) { clearInterval(...); ... = null }`,
\* `storage.clear()`, `expirations.clear()`
Destroy ==
  /\ backend = "memory"
  /\ destroys < MaxDestroys
  /\ cleanupIntervalId' = "null"
  /\ storage' = [k \in Keys |-> 0]
  /\ expirations' = [k \in Keys |-> None]
  /\ objs' = Collect(objs, storage', call)
  /\ destroys' = destroys + 1
  /\ UNCHANGED <<backend, clock, pc, call, obs, redisVars, nCalls,
                 histVars, afterVars, shadow, raced, frameVars, inserted, cacheVars,
                 moreVars,
                 cleanupInterval, tock>>

InitLife ==
  /\ InitCallers /\ InitHistory /\ InitStores /\ InitAfter /\ InitShadow
  /\ InitOther /\ inserted = NoneInserted /\ NoCacheKey /\ IdleBut("none")
  /\ InitMem
  /\ \E interval \in CleanupIntervals : Constructed(interval)

\* one MemoryRateLimitStorage from its construction on: the calls that write,
\* the sweep timer and destroy(); get and cleanup are never called
NextLife ==
  \/ TickOver(LifeInstants) /\ AfterKeep
  \/ \E k \in Keys, w \in Windows :
       AfterStart(1) /\ MemIncrement(1, k, w) /\ HistStart("increment", k)
  \/ \E k \in Keys, w \in Windows :
       AfterStart(1) /\ MemAddTimestamp(1, k, w, clock) /\ HistStart("addTimestamp", k)
  \/ \E k \in Keys : AfterStart(1) /\ MemReset(1, k) /\ HistStart("reset", k)
  \/ Resume(1) /\ AfterKeep
  \/ TimerCleanup
  \/ Destroy

SpecLife == InitLife /\ [][NextLife]_vars

\* the timer set by setInterval keeps firing while it is set, and time passes
SpecLifeFair ==
  /\ SpecLife
  /\ WF_vars(TimerCleanup)
  /\ WF_vars(TickOver(LifeInstants) /\ AfterKeep)

ExpiredEntry(k) ==
  storage[k] # 0 /\ expirations[k] # None /\ clock > expirations[k]

\* C15: on a MemoryRateLimitStorage constructed with cleanupInterval > 0 and
\* not destroyed, an entry whose expiration time has passed is eventually
\* removed (unless a new increment or addTimestamp replaces it first), with no
\* get ever called, as long as the sweep timer keeps firing.
C15_ExpiredEventuallySwept ==
  \A k \in Keys :
    (cleanupInterval > 0 /\ destroys = 0 /\ ExpiredEntry(k)) ~> ~ExpiredEntry(k)

\* the timer removed an expired entry: the last call was an increment on the
\* key, there was no reset and no destroy, and the entry is gone
C15_Witness ==
  /\ cleanupInterval > 0 /\ destroys = 0 /\ tock
  /\ last = [op |-> "increment", key |-> "a"] /\ prev.op # "reset"
  /\ storage["a"] = 0 /\ expirations["a"] = None
  /\ storage["b"] # 0

\* C16: after the first destroy() no timer-driven cleanup ever runs, a further
\* destroy() changes nothing, and a storage constructed with cleanupInterval = 0
\* never runs a timer-driven cleanup.
C16_DestroyIdempotent ==
  [][/\ destroys > 0 => tock' = tock
     /\ cleanupInterval = 0 => tock' = tock
     /\ (destroys > 0 /\ destroys' = destroys + 1)
          => UNCHANGED <<storage, expirations, cleanupIntervalId>>]_vars

\* C16 (amended): after the first destroy() no timer-driven cleanup ever runs; a
\* further destroy() leaves the timer cleared and the maps empty, and changes
\* nothing when no entry was stored since the previous destroy(); a storage
\* constructed with cleanupInterval = 0 never runs a timer-driven cleanup.
C16_DestroyIdempotentEmpty ==
  [][/\ destroys > 0 => tock' = tock
     /\ cleanupInterval = 0 => tock' = tock
     /\ (destroys > 0 /\ destroys' = destroys + 1)
          => /\ cleanupIntervalId' = "null" /\ cleanupIntervalId = "null"
             /\ \A k \in Keys : storage'[k] = 0 /\ expirations'[k] = None
             /\ (\A k \in Keys : storage[k] = 0)
                  => UNCHANGED <<storage, expirations, cleanupIntervalId>>]_vars

\* a second destroy() right after the first, on a storage whose timer had run
C16_Witness ==
  /\ destroys = 2 /\ cleanupInterval > 0 /\ tock
  /\ cleanupIntervalId = "null"
  /\ \A k \in Keys : storage[k] = 0
  /\ nCalls > 0

\* ------------------------------------------------------------------- C17
\* another writer leaves a string that is no entry under the key, between calls
Corrupt(k) ==
  /\ backend = "redis"
  /\ \A c \in Slots : pc[c] \in {"idle", "done"}
  /\ ~Malformed(rkv[k])
  /\ rkv' = [rkv EXCEPT ![k] = RString(Garbage)]
  /\ rexp' = [rexp EXCEPT ![k] = None]
  /\ UNCHANGED <<backend, clock, memVars, pc, call, obs, client, hasLua, probes,
                 faults, nCalls, histVars>>

InitMalformed ==
  /\ InitCallers /\ InitHistory /\ InitStores /\ InitExt
  /\ backend = "redis" /\ client \in SoundClients /\ faults = MaxFaults

\* get and increment of RedisRateLimitStorage over a key that may hold a
\* malformed value
NextMalformed ==
  \/ TickOver(AfterInstants) /\ Apart
  \/ (\E k \in SeqKeys : Corrupt(k)) /\ Apart
  \/ (\E k \in SeqKeys, w \in Windows : RedisIncrement(1, 1, k, w)) /\ Apart
  \/ (\E k \in SeqKeys : RedisGet(1, 1, k)) /\ Apart
  \/ (\E ok \in BOOLEAN : ProbeReply(1, ok)) /\ Apart
  \/ ScriptReply(1) /\ Apart
  \/ ScriptThrow(1, FALSE) /\ Apart
  \/ Zcount(1) /\ Apart
  \/ Read(1) /\ Apart
  \/ Write(1) /\ Apart
  \/ Resume(1) /\ Apart

SpecMalformed == InitMalformed /\ [][NextMalformed]_vars

\* C17: a get or increment that finds a malformed value under its key does not
\* return normally (it surfaces a failure) and does not overwrite the key.
C17_MalformedSurfaces ==
  [][\A c \in Slots :
       (/\ call[c].op \in {"get", "increment"}
        /\ pc[c] \in {"script", "read", "write"}
        /\ Malformed(rkv[call[c].key]))
         => /\ pc'[c] # "returned"
            /\ rkv'[call[c].key] = rkv[call[c].key]]_vars

\* ------------------------------------------------------------------- C18
\* the object a key of a storage brought into focus is stored in
CellOf(k) == IF k = "a" THEN 1 ELSE 2

\* the caller turns to the second MemoryRateLimitStorage: each storage has its
\* own `storage` and `expirations` maps and its own timer
Swap ==
  /\ backend = "memory"
  /\ \A c \in Slots : pc[c] \in {"idle", "done"}
  /\ parked' = [storage |-> [k \in Keys |-> Deref(objs, storage[k])],
               expirations |-> expirations,
               cleanupIntervalId |-> cleanupIntervalId]
  /\ storage' = [k \in Keys |->
                   IF parked.storage[k].kind = "none" THEN 0 ELSE CellOf(k)]
  /\ objs' = [i \in 1..MaxObj |->
                IF \E k \in Keys : storage'[k] = i
                THEN parked.storage[CHOOSE k \in Keys : storage'[k] = i]
                ELSE NoEntry]
  /\ expirations' = parked.expirations
  /\ cleanupIntervalId' = parked.cleanupIntervalId
  /\ cur' = 3 - cur
  /\ UNCHANGED <<backend, clock, pc, call, obs, redisVars, nCalls, histVars,
                 afterVars, shadow, raced, cleanupInterval, destroys, tock,
                 inserted, cacheVars, moreVars>>

FrameInstants == {0, 1001}

\* two MemoryRateLimitStorage instances, two keys, one caller
NextFrame ==
  \/ TickOver(FrameInstants) /\ AfterKeep
  \/ \E k \in Keys, w \in Windows :
       AfterStart(1) /\ MemIncrement(1, k, w) /\ HistStart("increment", k)
  \/ \E k \in Keys, w \in Windows :
       AfterStart(1) /\ MemAddTimestamp(1, k, w, clock) /\ HistStart("addTimestamp", k)
  \/ \E k \in Keys : AfterStart(1) /\ MemGet(1, k) /\ HistStart("get", k)
  \/ \E k \in Keys : AfterStart(1) /\ MemReset(1, k) /\ HistStart("reset", k)
  \/ AfterStart(1) /\ MemCleanup(1) /\ HistStart("cleanup", "a")
  \/ Resume(1) /\ AfterKeep
  \/ Destroy
  \/ Swap

InitFrame == InitSeq /\ backend = "memory"

SpecFrame == InitFrame /\ [][NextFrame]_vars

\* the entry stored under key j of the storage in focus
Stored(j) == Deref(objs, storage[j])

\* the step starts a call of op on key k of the storage in focus
Starts(op, k) ==
  /\ nCalls' = nCalls + 1
  /\ call'[1].op = op /\ call'[1].key = k

\* C18: increment, addTimestamp and reset on key k of a MemoryRateLimitStorage
\* leave the entry and the expiry of every other key as they were, and no
\* operation made on one storage changes an entry or an expiry of the other.
C18_Frame ==
  [][/\ \A k \in Keys, op \in {"increment", "addTimestamp", "reset"} :
          Starts(op, k) =>
            \A j \in Keys \ {k} :
              Stored(j)' = Stored(j) /\ expirations'[j] = expirations[j]
     /\ cur' = cur =>
          /\ parked'.storage = parked.storage
          /\ parked'.expirations = parked.expirations]_vars

\* key a is written on the second storage while key b of the second and key a
\* of the first hold entries
C18_Witness ==
  /\ cur = 2 /\ pc[1] = "returned"
  /\ call[1].op = "increment" /\ call[1].key = "a"
  /\ Stored("a").count = 1 /\ Stored("b").kind = "sliding"
  /\ parked.storage["a"].kind = "fixed"

\* ------------------------------------------------------------------- C19
InsertInstants == {0, 400, 800, 1000, 1400}

\* the `now` a caller passes to addTimestamp: the clock's reading, or a time of
\* its own choosing
InsertArgs == {clock} \cup InsertInstants

InsertRest ==
  UNCHANGED <<afterVars, shadow, raced, lifeVars, frameVars, cacheVars, moreVars>>

InsertKeep == UNCHANGED inserted /\ InsertRest

Inserts(now) ==
  /\ inserted' = [ts |-> Append(inserted.ts, now),
                  onClock |-> inserted.onClock /\ now = clock]
  /\ InsertRest

\* reset: the key is fresh again
InsertsNone == inserted' = NoneInserted /\ InsertRest

\* calls on a fresh key come in increasing order of the timestamps they pass
InsertStart(now) ==
  /\ nCalls < MaxOps + 1
  /\ \A t \in Range(inserted.ts) : t < now

\* one caller of addTimestamp, get and reset on one key of either storage
NextInsert ==
  \/ TickOver(InsertInstants) /\ InsertKeep
  \/ \E k \in SeqKeys, w \in Windows, now \in InsertArgs :
       InsertStart(now) /\ MemAddTimestamp(1, k, w, now) /\ Inserts(now)
  \/ \E k \in SeqKeys : nCalls < MaxOps + 1 /\ MemGet(1, k) /\ InsertKeep
  \/ \E k \in SeqKeys : nCalls < MaxOps + 1 /\ MemReset(1, k) /\ InsertsNone
  \/ \E k \in SeqKeys, w \in Windows, now \in InsertArgs :
       InsertStart(now) /\ RedisAddTimestamp(1, 1, k, w, now) /\ Inserts(now)
  \/ \E k \in SeqKeys : nCalls < MaxOps + 1 /\ RedisGet(1, 1, k) /\ InsertKeep
  \/ \E k \in SeqKeys : nCalls < MaxOps + 1 /\ RedisReset(1, 1, k) /\ InsertsNone
  \/ (\E ok \in BOOLEAN : ProbeReply(1, ok)) /\ InsertKeep
  \/ ScriptReply(1) /\ InsertKeep
  \/ Zcount(1) /\ InsertKeep
  \/ ZrangeAll(1) /\ InsertKeep
  \/ Read(1) /\ InsertKeep
  \/ Write(1) /\ InsertKeep
  \/ Zrem(1) /\ InsertKeep
  \/ Zadd(1) /\ InsertKeep
  \/ Expire(1) /\ InsertKeep
  \/ Zrange(1) /\ InsertKeep
  \/ Del(1) /\ InsertKeep
  \/ Resume(1) /\ InsertKeep

SpecInsert == InitSeq /\ [][NextInsert]_vars

\* t1 < ... < tn were inserted on the fresh key, tn - t1 < windowMs, and the
\* clock is at or before tn when get returns
GetAfterInserts(c) ==
  /\ pc[c] = "returned" /\ call[c].op = "get"
  /\ inserted.ts # <<>>
  /\ \A w \in Windows : inserted.ts[Len(inserted.ts)] - inserted.ts[1] < w
  /\ clock <= inserted.ts[Len(inserted.ts)]

\* C19: after addTimestamp inserted t1 < ... < tn on a fresh key with
\* tn - t1 < windowMs, a get made while the clock is at or before tn returns
\* exactly those n timestamps, on either storage.
C19_GetReturnsInserted ==
  \A c \in Slots :
    GetAfterInserts(c) => call[c].ret = SlidingWindowEntry(inserted.ts)

\* C19 (amended): the same on MemoryRateLimitStorage; on RedisRateLimitStorage
\* for timestamps that were the clock's readings when they were inserted.
C19_GetReturnsInsertedOnClock ==
  \A c \in Slots :
    (GetAfterInserts(c) /\ (backend = "memory" \/ inserted.onClock))
      => call[c].ret = SlidingWindowEntry(inserted.ts)

\* get returns three timestamps from the sorted set of a client without eval
C19_Witness ==
  /\ backend = "redis" /\ client.zset /\ ~client.eval
  /\ GetAfterInserts(1) /\ inserted.onClock
  /\ Len(inserted.ts) = 3
  /\ call[1].ret = SlidingWindowEntry(inserted.ts)

\* ------------------------------------------------------------------- C20
\* A string is a sequence of runs: an identifier (a run of characters other
\* than ':', '&' and '=') or one of these three characters.  A record of
\* key-value pairs is a set of <<key, value>> with one value per key.
MaxPairs == 2
TableNames == {"users"}
Prefixes == {"", "app"}
UserIds == {"", "u7"}
Methods == {"GET", "LIST"}
ParamKeys == {"id", "slug"}
QueryKeys == {"page", "q"}
ParamValues == {"1", "x"}
QueryValues == {[type |-> "string", text |-> "x"], [type |-> "number", text |-> "1"]}
KeyFieldSets == {{}, {"page"}}

\* Array.prototype.sort() on these keys: UTF-16 code unit order
KeyOrder == <<"category", "id", "page", "q", "slug">>

Records(keys, values) ==
  {r \in SUBSET (keys \X values) :
     /\ Cardinality(r) <= MaxPairs
     /\ \A p, q \in r : p[1] = q[1] => p = q}

CacheKeyOptions ==
  [prefix : Prefixes, tableName : TableNames, method : Methods,
   params : Records(ParamKeys, ParamValues),
   query : Records(QueryKeys, QueryValues),
   keyFields : KeyFieldSets, userId : UserIds]

\* String(value), `${value}`
String(v) == v.text

ValueOf(r, k) == (CHOOSE p \in r : p[1] = k)[2]

RECURSIVE Join(_, _)
Join(parts, sep) ==
  IF parts = <<>> THEN <<>>
  ELSE IF Len(parts) = 1 THEN parts[1]
       ELSE parts[1] \o <<sep>> \o Join(Tail(parts), sep)

RECURSIVE Split(_, _)
Split(str, sep) ==
  IF \A i \in DOMAIN str : str[i] # sep THEN <<str>>
  ELSE LET i == CHOOSE j \in DOMAIN str :
                  str[j] = sep /\ \A h \in 1..(j - 1) : str[h] # sep
       IN <<SubSeq(str, 1, i - 1)>> \o Split(SubSeq(str, i + 1, Len(str)), sep)

\* the values whose characters matter one by one
Spelled == [text \in {"12"} |-> <<"1", "2">>]

\* the characters of a string that holds no separator
Text(str) ==
  IF str = <<>> THEN ""
  ELSE IF \E t \in DOMAIN Spelled : Spelled[t] = str
       THEN CHOOSE t \in DOMAIN Spelled : Spelled[t] = str
       ELSE str[1]

Chars(text) ==
  IF text = "" THEN <<>>
  ELSE IF text \in DOMAIN Spelled THEN Spelled[text] ELSE <<text>>

\* `keys.sort().map((key) => key=value).join('&')`
RECURSIVE PairsOf(_, _)
PairsOf(keys, r) ==
  IF keys = <<>> THEN <<>>
  ELSE <<(<<keys[1], "=">> \o Chars(ValueOf(r, keys[1])))>> \o PairsOf(Tail(keys), r)

Sorted(keys) == SelectSeq(KeyOrder, LAMBDA k : k \in keys)

\* generateCacheKey(options)
generateCacheKey(o) ==
  LET paramKeys == {p[1] : p \in o.params}
      present == {p[1] : p \in {q \in o.query : String(q[2]) # ""}}
      queryKeys == IF o.keyFields # {} THEN present \cap o.keyFields ELSE present
      strings == {<<p[1], String(p[2])>> : p \in o.query}
      sortedParams == Join(PairsOf(Sorted(paramKeys), o.params), "&")
      sortedQuery == Join(PairsOf(Sorted(queryKeys), strings), "&")
      parts == (IF o.prefix # "" THEN <<Chars(o.prefix)>> ELSE <<>>)
               \o <<Chars(o.tableName), Chars(o.method)>>
               \o (IF paramKeys # {} THEN <<sortedParams>> ELSE <<>>)
               \o (IF o.query # {} /\ queryKeys # {} THEN <<sortedQuery>> ELSE <<>>)
               \o (IF o.userId # "" THEN <<(<<"user", "=">> \o Chars(o.userId))>> ELSE <<>>)
  IN Join(parts, ":")

\* `for (const pair of pairs) { const [k, v] = pair.split('='); ... }`
RECURSIVE ParsePairs(_, _)
ParsePairs(pairs, acc) ==
  IF pairs = <<>> THEN acc
  ELSE LET kv == Split(pairs[1], "=")
           k == Text(kv[1])
           set == k # "" /\ Len(kv) >= 2
       IN ParsePairs(Tail(pairs),
                     IF set THEN {p \in acc : p[1] # k} \cup {<<k, Text(kv[2])>>}
                     ELSE acc)

\* one round of the loop over the remaining parts
ParsePart(part, result) ==
  IF Len(part) >= 2 /\ part[1] = "user" /\ part[2] = "="
  THEN [result EXCEPT !.userId = Text(SubSeq(part, 3, Len(part)))]
  ELSE IF \E i \in DOMAIN part : part[i] = "="
       THEN LET pairs == ParsePairs(Split(part, "&"), {})
            IN IF result.method = "GET" /\ ~result.hasParams
               THEN [result EXCEPT !.hasParams = TRUE, !.params = pairs]
               ELSE IF result.method = "LIST" /\ ~result.hasQuery
                    THEN [result EXCEPT !.hasQuery = TRUE, !.query = pairs]
                    ELSE IF ~result.hasParams
                         THEN [result EXCEPT !.hasParams = TRUE, !.params = pairs]
                         ELSE [result EXCEPT !.hasQuery = TRUE, !.query = pairs]
       ELSE result

RECURSIVE ParseParts(_, _)
ParseParts(parts, result) ==
  IF parts = <<>> THEN result
  ELSE ParseParts(Tail(parts), ParsePart(parts[1], result))

\* parseCacheKey(key)
parseCacheKey(key) ==
  LET parts == Split(key, ":")
      hasPrefix == Len(parts) > 2 /\ Text(parts[2]) \notin {"GET", "LIST"}
      idx == IF hasPrefix THEN 1 ELSE 0
      part(i) == IF i <= Len(parts) THEN Text(parts[i]) ELSE ""
      result == [NoResult EXCEPT !.prefix = IF hasPrefix THEN Text(parts[1]) ELSE "",
                                 !.tableName = part(idx + 1),
                                 !.method = part(idx + 2)]
  IN ParseParts(SubSeq(parts, idx + 3, Len(parts)), result)

InitCacheKey ==
  /\ InitCallers /\ InitHistory /\ InitStores /\ InitMem
  /\ InitAfter /\ InitShadow /\ Constructed(DefaultCleanupInterval) /\ InitOther
  /\ inserted = NoneInserted
  /\ IdleBut("none")
  /\ options \in CacheKeyOptions
  /\ cacheKey = <<>>
  /\ parsed = NoResult
  /\ stage = "options"

CacheRest ==
  UNCHANGED <<backend, clock, memVars, pc, call, obs, redisVars, nCalls, histVars,
              afterVars, shadow, raced, lifeVars, frameVars, inserted, options,
              moreVars>>

Generate ==
  /\ stage = "options"
  /\ cacheKey' = generateCacheKey(options)
  /\ stage' = "generated"
  /\ UNCHANGED parsed
  /\ CacheRest

Parse ==
  /\ stage = "generated"
  /\ parsed' = parseCacheKey(cacheKey)
  /\ stage' = "parsed"
  /\ UNCHANGED cacheKey
  /\ CacheRest

NextCacheKey == Generate \/ Parse

SpecCacheKey == InitCacheKey /\ [][NextCacheKey]_vars

\* the query fields that go into the key, values as strings
KeyedQuery(o) ==
  {<<p[1], String(p[2])>> :
     p \in {q \in o.query : o.keyFields = {} \/ q[1] \in o.keyFields}}

\* C20: parseCacheKey(generateCacheKey(options)) returns the tableName and the
\* method of the options, their prefix and userId when given, their path params
\* under params and their query fields under query, values as strings, for GET
\* and LIST and every combination of optional fields.
C20_RoundTrip ==
  stage = "parsed" =>
    /\ parsed.tableName = options.tableName
    /\ parsed.method = options.method
    /\ options.prefix # "" => parsed.prefix = options.prefix
    /\ options.userId # "" => parsed.userId = options.userId
    /\ options.params # {} => parsed.hasParams /\ parsed.params = options.params
    /\ KeyedQuery(options) # {}
         => parsed.hasQuery /\ parsed.query = KeyedQuery(options)

\* ------------------------------------------------------------------- C21
\* the rate-limit storages and their histories
storageVars ==
  <<backend, clock, memVars, pc, call, obs, redisVars, nCalls, histVars,
    afterVars, shadow, raced, lifeVars, frameVars, inserted>>

\* the rate-limit storages, constructed and not used
InitStorages ==
  /\ InitCallers /\ InitHistory /\ InitStores /\ InitMem
  /\ InitAfter /\ InitShadow /\ Constructed(DefaultCleanupInterval) /\ InitOther
  /\ inserted = NoneInserted

RecordIds == {"1", "12", "2"}
PatternIds == {"1"}
RecordKeys == {"category", "id"}

\* the options of the keys cached for the records of one table
RecordKeyOptions ==
  [prefix : {""}, tableName : TableNames, method : Methods,
   params : Records(RecordKeys, RecordIds),
   query : Records({"page"}, QueryValues),
   keyFields : {{}}, userId : UserIds]

\* createInvalidationPattern(tableName, options, prefix)
createInvalidationPattern(tableName, o, prefix) ==
  LET head == (IF prefix # "" THEN <<Chars(prefix)>> ELSE <<>>) \o <<Chars(tableName)>>
  IN IF ~o.given THEN Join(head \o <<(<<"*">>)>>, ":")
     ELSE IF o.method # "" THEN Join(head \o <<Chars(o.method)>>, ":") \o <<"*">>
     ELSE IF o.hasId
          THEN Join(head \o <<(<<"*">>), <<"id", "=">> \o Chars(o.id) \o <<"*">>>>, ":")
          ELSE IF o.userId # ""
               THEN Join(head \o <<(<<"*">>), <<"user", "=">> \o Chars(o.userId)>>, ":")
               ELSE Join(head \o <<(<<"*">>)>>, ":")

\* `new RegExp('^' + regexPattern + '$').test(key)`: '*' became '.*', every
\* other character stands for itself
RECURSIVE matchesPattern(_, _)
matchesPattern(key, pat) ==
  IF pat = <<>> THEN key = <<>>
  ELSE IF pat[1] = "*"
       THEN \E i \in 0..Len(key) :
              matchesPattern(SubSeq(key, i + 1, Len(key)), Tail(pat))
       ELSE /\ key # <<>>
            /\ key[1] = pat[1]
            /\ matchesPattern(Tail(key), Tail(pat))

InitInvalidate ==
  /\ InitStorages
  /\ IdleBut("pattern")
  /\ options \in RecordKeyOptions
  /\ cacheKey = <<>>
  /\ parsed = NoResult
  /\ stage = "options"
  /\ patternOptions \in [given : {TRUE}, method : {""}, hasId : {TRUE},
                         id : PatternIds, userId : {""}]
  /\ pattern = <<>>
  /\ matches = FALSE

CreatePattern ==
  /\ stage = "generated"
  /\ pattern' = createInvalidationPattern(options.tableName, patternOptions, options.prefix)
  /\ stage' = "pattern"
  /\ UNCHANGED <<storageVars, options, cacheKey, parsed, patternOptions, matches>>
  /\ Keep({"pattern"})

MatchPattern ==
  /\ stage = "pattern"
  /\ matches' = matchesPattern(cacheKey, pattern)
  /\ stage' = "matched"
  /\ UNCHANGED <<storageVars, options, cacheKey, parsed, patternOptions, pattern>>
  /\ Keep({"pattern"})

\* Generate changes cacheKey and stage only
NextInvalidate == Generate \/ CreatePattern \/ MatchPattern

SpecInvalidate == InitInvalidate /\ [][NextInvalidate]_vars

\* C21: the pattern created for a table and an id matches a key generated for
\* that table exactly when the key's path params hold that id.
C21_PatternMatchesId ==
  stage = "matched" =>
    (matches <=> <<"id", patternOptions.id>> \in options.params)

\* ------------------------------------------------------------- C22, C23
MaxStores == 4
LogIds == {"a", "b", "c"}
LogTimestamps == {10, 20}
LogInstants == {30}
MaxAges == {15}
MaxEntriesGiven == {1, 2}

\* new Date(entry.timestamp).getTime()
getTime(entry) == entry[2]

\* Map.delete(id), Map.set(id, entry)
MapDelete(map, id) == {e \in map : e[1] # id}
MapSet(map, entry) == MapDelete(map, entry[1]) \cup {entry}

\* storage.getById(id): the entry, or null as <<>>
getById(id) ==
  IF \E e \in entriesById : e[1] = id
  THEN CHOOSE e \in entriesById : e[1] = id
  ELSE <<>>

getSize == Cardinality(entriesById)

\* the slip: the limit is enforced one entry late
RECURSIVE EvictedLate(_, _)
EvictedLate(st, limit) ==
  IF Len(st.ids) > limit
  THEN EvictedLate([ids |-> SubSeq(st.ids, 1, Len(st.ids) - 1),
                    map |-> MapDelete(st.map, st.ids[Len(st.ids)])], limit)
  ELSE st

\* the loop of store: while (entryIds.length >= maxEntries) pop the oldest
RECURSIVE Evicted(_, _)
Evicted(st, limit) ==
  IF Len(st.ids) >= limit /\ Len(st.ids) > 0
  THEN Evicted([ids |-> SubSeq(st.ids, 1, Len(st.ids) - 1),
                map |-> MapDelete(st.map, st.ids[Len(st.ids)])], limit)
  ELSE st

\* the loop of deleteOlderThan from index i down: a record of the ids, the
\* map and the number deleted
RECURSIVE Aged(_, _, _)
Aged(st, i, cutoff) ==
  IF i < 1 THEN st
  ELSE LET id == st.ids[i]
           held == {e \in st.map : e[1] = id}
       IN IF held = {} THEN Aged(st, i - 1, cutoff)
          ELSE IF getTime(CHOOSE e \in held : TRUE) < cutoff
               THEN Aged([ids |-> SubSeq(st.ids, 1, i - 1) \o
                                   SubSeq(st.ids, i + 1, Len(st.ids)),
                          map |-> MapDelete(st.map, id),
                          deleted |-> st.deleted + 1], i - 1, cutoff)
               ELSE st

InitLog ==
  /\ InitStorages
  /\ NoCacheKey
  /\ IdleBut("log")
  /\ entriesById = {}
  /\ entryIds = <<>>
  /\ maxEntries \in MaxEntriesGiven
  /\ logged = <<>>
  /\ aged = NoAged

LogRest == UNCHANGED <<storageVars, cacheVars>> /\ Keep({"log"})

Store(entry) ==
  /\ Len(logged) < MaxStores
  /\ LET st == Evicted([ids |-> entryIds, map |-> entriesById], maxEntries)
     IN /\ entriesById' = MapSet(st.map, entry)
        /\ entryIds' = <<entry[1]>> \o st.ids
  /\ logged' = Append(logged, entry[1])
  /\ aged' = [aged EXCEPT !.ran = FALSE]
  /\ UNCHANGED maxEntries
  /\ LogRest

DeleteOlderThan(now, maxAgeMs) ==
  /\ LET cutoff == now - maxAgeMs
         st == Aged([ids |-> entryIds, map |-> entriesById, deleted |-> 0],
                    Len(entryIds), cutoff)
     IN /\ entriesById' = st.map
        /\ entryIds' = st.ids
        /\ aged' = [ran |-> TRUE, ever |-> TRUE, cutoff |-> cutoff,
                    before |-> entriesById, deleted |-> st.deleted]
  /\ UNCHANGED <<maxEntries, logged>>
  /\ LogRest

NextLog ==
  \/ \E entry \in LogIds \X LogTimestamps : Store(entry)
  \/ \E now \in LogInstants, maxAgeMs \in MaxAges : DeleteOlderThan(now, maxAgeMs)

SpecLog == InitLog /\ [][NextLog]_vars

Distinct(ids) == \A i, j \in DOMAIN ids : ids[i] = ids[j] => i = j
Newest(ids, n) == {ids[i] : i \in (Len(ids) - n + 1)..Len(ids)}

C23_AgedOut ==
  aged.ran =>
    /\ \A e \in entriesById : ~(getTime(e) < aged.cutoff)
    /\ \A e \in aged.before : ~(getTime(e) < aged.cutoff) => e \in entriesById
    /\ aged.deleted = Cardinality(aged.before) - Cardinality(entriesById)

\* ------------------------------------------------------------------- C24
RateLimitStorages == {"s1", "s2", "s3"}

\* a StorageMiddlewareConfig, its rateLimitStorage field
StorageConfigs == RateLimitStorages \cup {"undefined"}

\* a storage object is truthy, undefined and null are not
Truthy(v) == v \notin {"undefined", "null"}

\* ctxObj?.var?.[key] for the key rateLimitStorage
getContextVar(withCtx) == IF withCtx THEN ctxVar ELSE "undefined"

\* the global getter
getRateLimitStorage == globalStorage

\* the slip: the global storage is asked before the context
resolveGlobalFirst(withCtx, explicitStorage) ==
  IF Truthy(explicitStorage) THEN explicitStorage
  ELSE IF Truthy(getRateLimitStorage) THEN getRateLimitStorage
  ELSE IF withCtx /\ Truthy(getContextVar(withCtx)) THEN getContextVar(withCtx)
  ELSE "null"

resolveRateLimitStorage(withCtx, explicitStorage) ==
  IF Truthy(explicitStorage) THEN explicitStorage
  ELSE IF withCtx /\ Truthy(getContextVar(withCtx)) THEN getContextVar(withCtx)
  ELSE getRateLimitStorage

InitResolve ==
  /\ InitStorages
  /\ NoCacheKey
  /\ IdleBut("resolve")
  /\ ctxVar = "undefined"
  /\ globalStorage = "null"
  /\ resolved = NoResolved

ResolveRest == UNCHANGED <<storageVars, cacheVars>> /\ Keep({"resolve"})

\* the handler of createStorageMiddleware(config), up to next()
StorageMiddleware(config) ==
  /\ ctxVar' = IF Truthy(config) THEN config ELSE ctxVar
  /\ UNCHANGED <<globalStorage, resolved>>
  /\ ResolveRest

\* setRateLimitStorage(storage); the tests also pass null
SetRateLimitStorage(s) ==
  /\ globalStorage' = s
  /\ UNCHANGED <<ctxVar, resolved>>
  /\ ResolveRest

\* a new request: a fresh context
NewContext ==
  /\ ctxVar' = "undefined"
  /\ UNCHANGED <<globalStorage, resolved>>
  /\ ResolveRest

Resolve(withCtx, explicitStorage) ==
  /\ resolved' = [called |-> TRUE, withCtx |-> withCtx, explicit |-> explicitStorage,
                  inCtx |-> ctxVar, global |-> globalStorage,
                  result |-> resolveRateLimitStorage(withCtx, explicitStorage)]
  /\ UNCHANGED <<ctxVar, globalStorage>>
  /\ ResolveRest

NextResolve ==
  \/ \E config \in StorageConfigs : StorageMiddleware(config)
  \/ \E s \in RateLimitStorages \cup {"null"} : SetRateLimitStorage(s)
  \/ NewContext
  \/ \E withCtx \in BOOLEAN, e \in RateLimitStorages \cup {"undefined"} :
       Resolve(withCtx, e)

SpecResolve == InitResolve /\ [][NextResolve]_vars

\* C24: resolveRateLimitStorage returns the explicit storage when one is given,
\* otherwise the context's storage when the context has one, otherwise the
\* global storage, and null when there is none (inCtx and global are what the
\* context and the global held when the call was made).
C24_Priority ==
  resolved.called =>
    IF resolved.explicit # "undefined" THEN resolved.result = resolved.explicit
    ELSE IF resolved.withCtx /\ resolved.inCtx \in RateLimitStorages
         THEN resolved.result = resolved.inCtx
         ELSE IF resolved.global \in RateLimitStorages
              THEN resolved.result = resolved.global
              ELSE resolved.result = "null"

\* a context storage and a different global one are both set: the context's wins
C24_Witness ==
  /\ resolved.called /\ resolved.withCtx /\ resolved.explicit = "undefined"
  /\ resolved.inCtx \in RateLimitStorages /\ resolved.global \in RateLimitStorages
  /\ resolved.inCtx # resolved.global
  /\ resolved.result = resolved.inCtx

\* ------------------------------------------------------------------- C25
AuthNow == 10
ApiKeys == {"k1", "k2"}

\* hashKey(apiKey)
hashKey(k) == IF k = "k1" THEN "h1" ELSE "h2"

\* the entries the key table may hold under the hash of k1; expiresAt 0: none
ApiKeyEntries ==
  [id : {"e1"}, userId : {"u1"}, active : BOOLEAN, expiresAt : {0, 5, 10, 15}]

\* how config.updateLastUsed ends: not configured, resolves, returns a promise
\* that rejects, or throws before it returns
UpdateOutcomes == {"undefined", "resolves", "rejects", "throws"}

AuthRequests ==
  [header : ApiKeys \cup {""}, query : {"", "k1"}, queryParam : {"null", "api_key"},
   entry : ApiKeyEntries \cup {NullEntry}, updateLastUsed : UpdateOutcomes]

\* config.lookupKey(keyHash): the table holds at most one entry, under h1
lookupKey(keyHash) == IF keyHash = "h1" THEN request.entry ELSE NullEntry

\* extractFromHeader, then extractFromQuery when a queryParam is configured
Extracted ==
  IF request.header # "" THEN request.header
  ELSE IF request.queryParam # "null" /\ request.query # "" THEN request.query
  ELSE "null"

\* the slip: a revoked key passes
validateLenient(entry) ==
  IF entry.id = "null" THEN "Invalid API key"
  ELSE IF entry.expiresAt # 0 /\ AuthNow > entry.expiresAt THEN "API key has expired"
  ELSE "ok"

\* validateAPIKeyEntry(entry): "ok", or the message of the exception thrown
validateAPIKeyEntry(entry) ==
  IF entry.id = "null" THEN "Invalid API key"
  ELSE IF ~entry.active THEN "API key has been revoked"
  ELSE IF entry.expiresAt # 0 /\ AuthNow > entry.expiresAt THEN "API key has expired"
  ELSE "ok"

InitAuth ==
  /\ InitStorages
  /\ NoCacheKey
  /\ IdleBut("auth")
  /\ request \in AuthRequests
  /\ authPc = "start"
  /\ apiKey = "null"
  /\ ctxAuth = NoCtxAuth
  /\ authOut = NoAuthOut

AuthRest == UNCHANGED <<storageVars, cacheVars, request>> /\ Keep({"auth"})

\* the handler up to `await hashKey(apiKey)`
AuthExtract ==
  /\ authPc = "start"
  /\ IF Extracted = "null"
     THEN /\ authOut' = [authOut EXCEPT !.thrown = "Unauthorized"]
          /\ authPc' = "done"
          /\ UNCHANGED apiKey
     ELSE /\ apiKey' = Extracted
          /\ authPc' = "hash"
          /\ UNCHANGED authOut
  /\ UNCHANGED ctxAuth
  /\ AuthRest

\* hashKey resolves; the handler calls config.lookupKey(keyHash)
AuthHash ==
  /\ authPc = "hash"
  /\ apiKey' = hashKey(apiKey)
  /\ authPc' = "lookup"
  /\ UNCHANGED <<ctxAuth, authOut>>
  /\ AuthRest

\* lookupKey resolves; the rest of the handler up to `await next()`
AuthLookup ==
  /\ authPc = "lookup"
  /\ LET entry == lookupKey(apiKey)
         verdict == validateAPIKeyEntry(entry)
     IN IF verdict # "ok"
        THEN /\ authOut' = [authOut EXCEPT !.thrown = "Unauthorized"]
             /\ authPc' = "done"
             /\ UNCHANGED ctxAuth
        ELSE /\ ctxAuth' = [userId |-> entry.userId, authType |-> "api-key"]
             /\ IF request.updateLastUsed = "throws"
                THEN /\ authOut' = [authOut EXCEPT !.thrown = "Error"]
                     /\ authPc' = "done"
                ELSE /\ authOut' = [authOut EXCEPT
                                      !.updated = request.updateLastUsed = "resolves"]
                     /\ authPc' = "next"
  /\ UNCHANGED apiKey
  /\ AuthRest

\* next() runs and resolves
AuthNext ==
  /\ authPc = "next"
  /\ authOut' = [authOut EXCEPT !.next = TRUE]
  /\ authPc' = "done"
  /\ UNCHANGED <<apiKey, ctxAuth>>
  /\ AuthRest

NextAuth == AuthExtract \/ AuthHash \/ AuthLookup \/ AuthNext

SpecAuth == InitAuth /\ [][NextAuth]_vars

\* the key was extracted, found, active and not expired
Authentic ==
  /\ Extracted # "null"
  /\ lookupKey(hashKey(Extracted)).id # "null"
  /\ lookupKey(hashKey(Extracted)).active
  /\ LET e == lookupKey(hashKey(Extracted)).expiresAt IN e = 0 \/ ~(AuthNow > e)

\* C25: the API key middleware runs next() and sets the context variables
\* exactly when the key was extracted, found, active and not expired; otherwise
\* it throws UnauthorizedException with next() not run and nothing set; a
\* failing updateLastUsed does not keep next() from running.
C25_OnlyAuthentic ==
  authPc = "done" =>
    IF Authentic
    THEN authOut.next /\ authOut.thrown = "none" /\ ctxAuth.authType = "api-key"
    ELSE ~authOut.next /\ authOut.thrown = "Unauthorized" /\ ctxAuth = NoCtxAuth

\* the same with updateLastUsed failing by a rejected promise only
C25_OnlyAuthenticAsync ==
  (authPc = "done" /\ request.updateLastUsed # "throws") =>
    IF Authentic
    THEN authOut.next /\ authOut.thrown = "none" /\ ctxAuth.authType = "api-key"
    ELSE ~authOut.next /\ authOut.thrown = "Unauthorized" /\ ctxAuth = NoCtxAuth

\* ------------------------------------------------------------------- C26
\* the slip: the item routes are registered ahead of /search
ItemRoutesEarly ==
  << [endpoint |-> "create", method |-> "post", path |-> ""],
     [endpoint |-> "list", method |-> "get", path |-> ""],
     [endpoint |-> "batchCreate", method |-> "post", path |-> "/batch"],
     [endpoint |-> "batchUpdate", method |-> "patch", path |-> "/batch"],
     [endpoint |-> "batchDelete", method |-> "delete", path |-> "/batch"],
     [endpoint |-> "batchRestore", method |-> "post", path |-> "/batch/restore"],
     [endpoint |-> "read", method |-> "get", path |-> "/:id"],
     [endpoint |-> "search", method |-> "get", path |-> "/search"],
     [endpoint |-> "aggregate", method |-> "get", path |-> "/aggregate"],
     [endpoint |-> "export", method |-> "get", path |-> "/export"],
     [endpoint |-> "import", method |-> "post", path |-> "/import"],
     [endpoint |-> "update", method |-> "patch", path |-> "/:id"],
     [endpoint |-> "delete", method |-> "delete", path |-> "/:id"],
     [endpoint |-> "restore", method |-> "post", path |-> "/:id/restore"] >>

\* the `if (endpoints.x) typedApp.m(path, endpoints.x)` statements of
\* registerCrud, in their order; path is what follows normalizedPath
CrudStatements ==
  << [endpoint |-> "create", method |-> "post", path |-> ""],
     [endpoint |-> "list", method |-> "get", path |-> ""],
     [endpoint |-> "batchCreate", method |-> "post", path |-> "/batch"],
     [endpoint |-> "batchUpdate", method |-> "patch", path |-> "/batch"],
     [endpoint |-> "batchDelete", method |-> "delete", path |-> "/batch"],
     [endpoint |-> "batchRestore", method |-> "post", path |-> "/batch/restore"],
     [endpoint |-> "search", method |-> "get", path |-> "/search"],
     [endpoint |-> "aggregate", method |-> "get", path |-> "/aggregate"],
     [endpoint |-> "export", method |-> "get", path |-> "/export"],
     [endpoint |-> "import", method |-> "post", path |-> "/import"],
     [endpoint |-> "read", method |-> "get", path |-> "/:id"],
     [endpoint |-> "update", method |-> "patch", path |-> "/:id"],
     [endpoint |-> "delete", method |-> "delete", path |-> "/:id"],
     [endpoint |-> "restore", method |-> "post", path |-> "/:id/restore"] >>

EndpointNames == {CrudStatements[i].endpoint : i \in DOMAIN CrudStatements}

InitCrud ==
  /\ InitStorages
  /\ NoCacheKey
  /\ IdleBut("crud")
  /\ endpoints \in SUBSET EndpointNames
  /\ routes = <<>>
  /\ registered = FALSE

\* registerCrud(app, basePath, endpoints)
RegisterCrud ==
  /\ ~registered
  /\ routes' = routes \o SelectSeq(CrudStatements, LAMBDA st : st.endpoint \in endpoints)
  /\ registered' = TRUE
  /\ UNCHANGED <<storageVars, cacheVars, endpoints>>
  /\ Keep({"crud"})

NextCrud == RegisterCrud

SpecCrud == InitCrud /\ [][NextCrud]_vars

FixedSegment(route) ==
  route.path \in {"/batch", "/batch/restore", "/search", "/aggregate", "/export", "/import"}
ItemRoute(route) == route.path \in {"/:id", "/:id/restore"}

\* C26: in the app's routes every fixed-segment route (/batch, /batch/restore,
\* /search, /aggregate, /export, /import) stands before every /:id route,
\* whatever endpoints were supplied, and every endpoint supplied has its route.
C26_FixedBeforeItem ==
  registered =>
    /\ \A i, j \in DOMAIN routes :
         (FixedSegment(routes[i]) /\ ItemRoute(routes[j])) => i < j
    /\ {routes[i].endpoint : i \in DOMAIN routes} = endpoints

\* a read route and a search route were both supplied and registered
C26_Witness ==
  /\ registered
  /\ {"read", "search", "batchDelete", "restore"} \subseteq endpoints
  /\ \E i, j \in DOMAIN routes : routes[i].path = "/search" /\ routes[j].path = "/:id"

\* ------------------------------------------------------------------- C27
Sources == {"header", "path", "query", "jwt", "custom"}

\* validate: not given, resolves true, resolves false, throws
ValidateOutcomes == {"undefined", "true", "false", "throws"}

\* jwt: "nopayload" no jwtPayload in the context, "noclaim" a payload without
\* the claim; custom: "noextractor" no extractor given
TenantRequests ==
  [source : Sources, required : BOOLEAN, onMissing : BOOLEAN,
   validate : ValidateOutcomes,
   header : {"undefined", "", "t1"}, path : {"undefined", "t2"},
   query : {"undefined", "t3"}, jwt : {"nopayload", "noclaim", "t4"},
   custom : {"noextractor", "undefined", "t5"}]

\* extractors[source](ctx)
extractFn(req) ==
  IF req.source = "header" THEN req.header
  ELSE IF req.source = "path" THEN req.path
  ELSE IF req.source = "query" THEN req.query
  ELSE IF req.source = "jwt"
       THEN (IF req.jwt \in {"nopayload", "noclaim"} THEN "undefined" ELSE req.jwt)
       ELSE (IF req.custom = "noextractor" THEN "undefined" ELSE req.custom)

\* the slip: only undefined counts as missing
MissingStrict(t) == t = "undefined"

\* !tenantId
Missing(t) == t \in {"undefined", ""}

InitTenant ==
  /\ InitStorages
  /\ NoCacheKey
  /\ IdleBut("tenant")
  /\ tenantReq \in TenantRequests
  /\ tenantPc = "start"
  /\ tenantId = "undefined"
  /\ tenantCtx = "undefined"
  /\ tenantOut = NoTenantOut

TenantRest == UNCHANGED <<storageVars, cacheVars, tenantReq>> /\ Keep({"tenant"})

\* the handler up to `await extractFn(ctx)`
TenantExtract ==
  /\ tenantPc = "start"
  /\ tenantId' = extractFn(tenantReq)
  /\ tenantPc' = "extracted"
  /\ UNCHANGED <<tenantCtx, tenantOut>>
  /\ TenantRest

\* from the extracted id to the handler's end or to `await validate(...)`
TenantCheck ==
  /\ tenantPc = "extracted"
  /\ IF Missing(tenantId)
     THEN /\ tenantOut' =
               IF tenantReq.required
               THEN [result |-> IF tenantReq.onMissing THEN "response" ELSE "400",
                     next |-> FALSE]
               ELSE [result |-> "next", next |-> TRUE]
          /\ tenantPc' = "done"
          /\ UNCHANGED tenantCtx
     ELSE IF tenantReq.validate # "undefined"
          THEN /\ tenantPc' = "validate"
               /\ UNCHANGED <<tenantCtx, tenantOut>>
          ELSE /\ tenantCtx' = tenantId
               /\ tenantOut' = [result |-> "next", next |-> TRUE]
               /\ tenantPc' = "done"
  /\ UNCHANGED tenantId
  /\ TenantRest

\* validate has settled
TenantValidated ==
  /\ tenantPc = "validate"
  /\ IF tenantReq.validate = "true"
     THEN /\ tenantCtx' = tenantId
          /\ tenantOut' = [result |-> "next", next |-> TRUE]
     ELSE /\ tenantOut' = [result |-> IF tenantReq.validate = "false" THEN "400"
                                                                     ELSE "Error",
                           next |-> FALSE]
          /\ UNCHANGED tenantCtx
  /\ tenantPc' = "done"
  /\ UNCHANGED tenantId
  /\ TenantRest

NextTenant == TenantExtract \/ TenantCheck \/ TenantValidated

SpecTenant == InitTenant /\ [][NextTenant]_vars

\* what the request carries for the configured source
Carried ==
  LET r == tenantReq
  IN IF r.source = "header" THEN r.header
     ELSE IF r.source = "path" THEN r.path
     ELSE IF r.source = "query" THEN r.query
     ELSE IF r.source = "jwt" THEN r.jwt
     ELSE r.custom
NoTenantId == Carried \in {"undefined", "", "nopayload", "noclaim", "noextractor"}

\* C27: with required and no tenant id next() is not called and the handler
\* ends with onMissing's response or a 400; a validate that returns false ends
\* in a 400 without next(); the context key is set only to the id extracted
\* and validated; with required false and no tenant id next() runs and the
\* context key stays unset.
C27_TenantGate ==
  /\ tenantCtx # "undefined" =>
       /\ ~NoTenantId /\ tenantCtx = Carried
       /\ tenantReq.validate \in {"undefined", "true"}
  /\ tenantOut.next => (tenantPc = "done" /\ tenantOut.result = "next")
  /\ tenantPc = "done" =>
       /\ (tenantReq.required /\ NoTenantId) =>
            /\ ~tenantOut.next
            /\ tenantOut.result = IF tenantReq.onMissing THEN "response" ELSE "400"
       /\ (~NoTenantId /\ tenantReq.validate = "false") =>
            ~tenantOut.next /\ tenantOut.result = "400"
       /\ (~tenantReq.required /\ NoTenantId) =>
            tenantOut.next /\ tenantCtx = "undefined"

\* an empty header under required: refused without next()
C27_Witness ==
  /\ tenantPc = "done"
  /\ tenantReq.source = "header" /\ tenantReq.header = "" /\ tenantReq.required
  /\ ~tenantOut.next /\ tenantOut.result = "400"

\* ------------------------------------------------------------------- C28
FaultInstants == {0, 500, 1001}

\* a Redis storage whose eval may fail once
InitFault ==
  /\ InitCallers /\ InitHistory /\ InitStores /\ InitExt
  /\ backend = "redis" /\ client \in SoundClients /\ faults = 0

\* one caller making increment and reset calls on one key; eval may throw
\* before or after the server ran the script
NextFault ==
  \/ TickOver(FaultInstants) /\ ShadowTick /\ EquivRest
  \/ \E k \in SeqKeys, w \in Windows :
       RedisIncrement(1, 1, k, w) /\ ShadowIncrement(w, clock) /\ EquivRest
  \/ \E k \in SeqKeys : RedisReset(1, 1, k) /\ ShadowReset /\ EquivRest
  \/ (\E ok \in BOOLEAN : ProbeReply(1, ok)) /\ EquivKeep
  \/ ScriptReply(1) /\ EquivKeep
  \/ (\E ran \in BOOLEAN : ScriptThrow(1, ran)) /\ EquivKeep
  \/ Zcount(1) /\ EquivKeep
  \/ Read(1) /\ EquivKeep
  \/ Write(1) /\ EquivKeep
  \/ Del(1) /\ EquivKeep
  \/ Resume(1) /\ EquivKeep

SpecFault == InitFault /\ [][NextFault]_vars

\* the count the server holds for key k
StoredCount(k) ==
  IF rkv[k].type = "string" THEN JsonParse(rkv[k].text).count ELSE 0

\* C28: every increment that returns has raised the stored count of the
\* current window by exactly one (shadow counts one for each call; the stored
\* count is looked at while the server still holds the key), also when
\* eval threw after the server had run the script and the call went on to the
\* non-atomic path.
C28_CountedOnce ==
  (pc[1] = "returned" /\ call[1].op = "increment" /\ ~raced) =>
    /\ rkv[call[1].key].type = "string" => StoredCount(call[1].key) = shadow.count
    /\ call[1].ret.count = shadow.count

\* ------------------------------------------------------------------- C29
RepeatInstants == {0, 400, 1000}

\* calls on a fresh key pass timestamps that never go back; two calls may pass
\* the same millisecond
RepeatStart(now) ==
  /\ nCalls < MaxOps + 1
  /\ \A t \in Range(inserted.ts) : t <= now

\* one caller of addTimestamp and reset on one key of either storage
NextRepeat ==
  \/ TickOver(RepeatInstants) /\ InsertKeep
  \/ \E k \in SeqKeys, w \in Windows :
       RepeatStart(clock) /\ MemAddTimestamp(1, k, w, clock) /\ Inserts(clock)
  \/ \E k \in SeqKeys : nCalls < MaxOps + 1 /\ MemReset(1, k) /\ InsertsNone
  \/ \E k \in SeqKeys, w \in Windows :
       RepeatStart(clock) /\ RedisAddTimestamp(1, 1, k, w, clock) /\ Inserts(clock)
  \/ \E k \in SeqKeys : nCalls < MaxOps + 1 /\ RedisReset(1, 1, k) /\ InsertsNone
  \/ (\E ok \in BOOLEAN : ProbeReply(1, ok)) /\ InsertKeep
  \/ ScriptReply(1) /\ InsertKeep
  \/ Read(1) /\ InsertKeep
  \/ Write(1) /\ InsertKeep
  \/ Zrem(1) /\ InsertKeep
  \/ Zadd(1) /\ InsertKeep
  \/ Expire(1) /\ InsertKeep
  \/ Zrange(1) /\ InsertKeep
  \/ Del(1) /\ InsertKeep
  \/ Resume(1) /\ InsertKeep

InitRepeat == InitSeq

SpecRepeat == InitRepeat /\ [][NextRepeat]_vars

\* the k-th addTimestamp on the fresh key has returned, all k timestamps lie in
\* one window
KthReturned(c) ==
  /\ pc[c] = "returned" /\ call[c].op = "addTimestamp"
  /\ inserted.ts # <<>>
  /\ \A w \in Windows : inserted.ts[Len(inserted.ts)] - inserted.ts[1] < w

\* C29: on the sorted-set paths of the Redis addTimestamp, with or without
\* script, the k-th of k sequential calls on a fresh key with timestamps in
\* one window returns k timestamps, equal milliseconds included, as the
\* memory storage does.
C29_OneMemberPerCall ==
  \A c \in Slots :
    (KthReturned(c) /\ (backend = "memory" \/ client.zset)) =>
      Len(call[c].ret.timestamps) = Len(inserted.ts)

\* the memory storage alone
C29_MemoryOnePerCall ==
  \A c \in Slots :
    (KthReturned(c) /\ backend = "memory") =>
      Len(call[c].ret.timestamps) = Len(inserted.ts)

\* ------------------------------------------------------------------- C30
AddInstants == {100, 200, 300}

\* a Redis storage on a client with the sorted-set methods and without eval
InitAdd ==
  /\ InitCallers /\ InitHistory /\ InitStores /\ InitExt
  /\ backend = "redis"
  /\ client = [eval |-> FALSE, zset |-> TRUE, scripts |-> FALSE]
  /\ faults = MaxFaults

AddsOn(k) ==
  {c \in Slots : call[c].op = "addTimestamp" /\ call[c].key = k /\ pc[c] # "idle"}

\* the callers pass pairwise distinct timestamps
AddStart(c, k, now) ==
  /\ pc[c] = "idle"
  /\ \A d \in AddsOn(k) : call[d].now # now

\* addTimestamp calls that overlap on one key, each a chain of four round
\* trips: zremrangebyscore, zadd, expire, zrangebyscore
NextAdd ==
  \/ (\E c \in Slots, k \in SeqKeys, w \in Windows, now \in AddInstants :
        NextSlot(c) /\ AddStart(c, k, now) /\ RedisAddTimestamp(c, 1, k, w, now))
       /\ Apart
  \/ (\E c \in Slots : Zrem(c)) /\ Apart
  \/ (\E c \in Slots : Zadd(c)) /\ Apart
  \/ (\E c \in Slots : Expire(c)) /\ Apart
  \/ (\E c \in Slots : Zrange(c)) /\ Apart

SpecAdd == InitAdd /\ [][NextAdd]_vars

\* C30: N overlapping addTimestamp calls on the non-atomic sorted-set path,
\* with pairwise distinct timestamps on a fresh key inside one window, every
\* caller deciding allowed = (number of timestamps returned) <= L: exactly
\* min(N, L) callers are allowed, whatever the interleaving.
C30_ExactlyMinAdmitted ==
  \A k \in SeqKeys, L \in 1..MaxLimit :
    LET S == AddsOn(k)
    IN (S # {} /\ \A c \in S : pc[c] = "returned")
       => Cardinality({c \in S : Len(call[c].ret.timestamps) <= L})
            = Min(Cardinality(S), L)

\* ------------------------------------------------------------------- C31
\* C31: on the fallback path of the Redis storage (a client without eval),
\* while every increment of a key was started on the fresh key inside one
\* running window, the stored count and every count returned are at most the
\* number of increments started, however the calls of the processes interleave.
C31_FallbackNeverAdds ==
  \A k \in Keys :
    (backend = "redis" /\ ~client.eval /\ OneWindow(k)) =>
      /\ StoredEntry(k).count <= incCalls[k]
      /\ \A c \in IncrementsOn(k) :
           pc[c] \in {"write", "returned"} => call[c].ret.count <= incCalls[k]

\* two increments of two processes have overlapped and one was lost
C31_Witness ==
  /\ backend = "redis" /\ ~client.eval /\ OneWindow("a")
  /\ incCalls["a"] = 2
  /\ pc[1] = "done" /\ pc[2] = "done"
  /\ obs[1] = 1 /\ obs[2] = 1
  /\ call[1].inst # call[2].inst
  /\ StoredEntry("a").count = 1

\* ------------------------------------------------------------------- C32
MixedWindows == {1000, 2000}
SweepInstants == {0, 500, 1000, 1500, 2500}

InitSweep ==
  /\ InitCallers /\ InitHistory /\ InitStores /\ InitMem
  /\ InitAfter /\ InitShadow /\ Constructed(DefaultCleanupInterval) /\ InitOther
  /\ inserted = NoneInserted
  /\ NoCacheKey
  /\ IdleBut("sweep")
  /\ sweepW = {}
  /\ dropped = FALSE

SweepRest ==
  /\ UNCHANGED <<afterVars, raced, lifeVars, frameVars, inserted, cacheVars>>
  /\ Keep({"sweep"})

SweepKeep == UNCHANGED <<shadow, sweepW, dropped>> /\ SweepRest

\* a get or a cleanup: whether it deleted the entry of k
Drops(k) ==
  /\ dropped' = (dropped \/ (storage[k] # 0 /\ storage'[k] = 0))
  /\ UNCHANGED <<shadow, sweepW>>
  /\ SweepRest

\* one caller of increment, get, cleanup and reset on one key of the memory
\* storage; shadow is the entry the increments alone add up to, with nothing
\* ever deleted but by reset
NextSweep ==
  \/ TickOver(SweepInstants) /\ SweepKeep
  \/ \E k \in SeqKeys, w \in MixedWindows :
       /\ MemIncrement(1, k, w)
       /\ shadow' = ExpectedIncrement(shadow, w, clock)
       /\ sweepW' = sweepW \cup {w}
       /\ UNCHANGED dropped
       /\ SweepRest
  \/ \E k \in SeqKeys : MemGet(1, k) /\ Drops(k)
  \/ \E k \in SeqKeys : MemCleanup(1) /\ Drops(k)
  \/ \E k \in SeqKeys :
       /\ MemReset(1, k)
       /\ shadow' = NoEntry /\ sweepW' = {} /\ dropped' = FALSE
       /\ SweepRest
  \/ Resume(1) /\ SweepKeep

SpecSweep == InitSweep /\ [][NextSweep]_vars

SameResult(c) ==
  /\ call[c].ret.count = shadow.count
  /\ call[c].ret.windowStart = shadow.windowStart

\* C32: a cleanup or get run anywhere in a sequence of calls on the memory
\* storage, increments with different windowMs included, does not change what
\* a later increment returns: it returns what the increments alone add up to.
C32_SweepInvisible ==
  \A c \in Slots :
    (pc[c] = "returned" /\ call[c].op = "increment") => SameResult(c)

\* C32 (amended): the same for sequences whose increments on the key all pass
\* one windowMs.
C32_SweepInvisibleOneWindow ==
  \A c \in Slots :
    (pc[c] = "returned" /\ call[c].op = "increment" /\ Cardinality(sweepW) = 1)
      => SameResult(c)

\* the sweep has deleted the entry of an ended window and the next increment
\* starts the window it would have started anyway
C32_Witness ==
  /\ pc[1] = "returned" /\ call[1].op = "increment"
  /\ Cardinality(sweepW) = 1
  /\ dropped
  /\ call[1].pre = NoEntry
  /\ call[1].ret.count = 1 /\ call[1].now > 0
  /\ SameResult(1)

\* ------------------------------------------------------------------- C33
OrderInstants == {0, 600, 1200, 1800}
OrderArgs == {0, 500, 1000, 1500}

InitOrder == InitSeq /\ backend = "memory"

\* one caller of addTimestamp, get, cleanup and reset on one key of the memory
\* storage; the timestamps passed come in any order
NextOrder ==
  \/ TickOver(OrderInstants) /\ InsertKeep
  \/ \E k \in SeqKeys, w \in Windows, now \in OrderArgs :
       MemAddTimestamp(1, k, w, now) /\ Inserts(now)
  \/ \E k \in SeqKeys : MemGet(1, k) /\ InsertKeep
  \/ MemCleanup(1) /\ InsertKeep
  \/ \E k \in SeqKeys : MemReset(1, k) /\ InsertsNone
  \/ Resume(1) /\ InsertKeep

SpecOrder == InitOrder /\ [][NextOrder]_vars

Largest(ts) == CHOOSE t \in Range(ts) : \A u \in Range(ts) : u <= t

\* the expiration of k is at least its largest timestamp plus windowMs
ExpiryCovers(k) ==
  LET e == StoredEntry(k)
  IN (e.kind = "sliding" /\ e.timestamps # <<>>) =>
       \A w \in Windows : expirations[k] >= Largest(e.timestamps) + w

NonDecreasing(ts) == \A i, j \in DOMAIN ts : i < j => ts[i] <= ts[j]

\* C33: after addTimestamp calls on a key of the memory storage with `now`
\* values in any order, the key's expiration is at least the largest timestamp
\* held plus windowMs.
C33_ExpiryCoversNewest == \A k \in SeqKeys : ExpiryCovers(k)

\* C33 (amended): the same when the `now` values passed since the last reset
\* never go back.
C33_ExpiryCoversNewestInOrder ==
  \A k \in SeqKeys : NonDecreasing(inserted.ts) => ExpiryCovers(k)

\* three timestamps in order, two of them held, the expiration on the last
C33_Witness ==
  /\ Len(inserted.ts) = 3 /\ NonDecreasing(inserted.ts)
  /\ inserted.ts[1] < inserted.ts[3]
  /\ Len(StoredEntry("a").timestamps) >= 2
  /\ expirations["a"] = inserted.ts[3] + 1000

\* ------------------------------------------------------------------- C34
\* option sets whose query may use the name of a path param
PairOptions ==
  [prefix : Prefixes, tableName : TableNames, method : Methods,
   params : Records({"id"}, {"1"}),
   query : Records({"id", "page"}, QueryValues),
   keyFields : KeyFieldSets, userId : UserIds]

InitPair ==
  /\ InitStorages
  /\ IdleBut("pair")
  /\ options \in PairOptions
  /\ cacheKey = <<>>
  /\ parsed = NoResult
  /\ stage = "options"
  /\ others \in PairOptions
  /\ otherKey = <<>>

GenerateOther ==
  /\ stage = "generated"
  /\ otherKey' = generateCacheKey(others)
  /\ stage' = "pair"
  /\ UNCHANGED <<storageVars, options, cacheKey, parsed, others>>
  /\ Keep({"pair"})

NextPair == Generate \/ GenerateOther

SpecPair == InitPair /\ [][NextPair]_vars

\* what a key stands for: prefix, table, method, path params, the query fields
\* that go into the key (values as strings) and the user
Semantic(o) ==
  [prefix |-> o.prefix, tableName |-> o.tableName, method |-> o.method,
   params |-> o.params, query |-> KeyedQuery(o), userId |-> o.userId]

\* C34: two option sets that differ in prefix, tableName, method, path params,
\* key-relevant query fields or userId never produce the same key, whatever the
\* names of the params and the split between params and query.
C34_Injective ==
  (stage = "pair" /\ Semantic(options) # Semantic(others)) => cacheKey # otherKey

\* ------------------------------------------------------------------- C35
\* `this.maxEntries = options?.maxEntries ?? 10000`: 0 stays 0
MaxEntriesFromZero == {0, 1, 2}

InitStoring ==
  /\ InitStorages
  /\ NoCacheKey
  /\ IdleBut("log")
  /\ entriesById = {}
  /\ entryIds = <<>>
  /\ maxEntries \in MaxEntriesFromZero
  /\ logged = <<>>
  /\ aged = NoAged

StoringRest == UNCHANGED <<storageVars, cacheVars>> /\ Keep({"log", "store"})

\* store(entry) is called
StoreCall(entry) ==
  /\ storePc = "idle"
  /\ Len(logged) < MaxStores
  /\ storePc' = "while"
  /\ pending' = entry
  /\ UNCHANGED logVars
  /\ StoringRest

\* one round of `while (this.entryIds.length >= this.maxEntries)`: pop() gives
\* undefined on an empty array and nothing is deleted
StoreLoop ==
  /\ storePc = "while"
  /\ Len(entryIds) >= maxEntries
  /\ IF entryIds = <<>> THEN UNCHANGED <<entryIds, entriesById>>
     ELSE /\ entryIds' = SubSeq(entryIds, 1, Len(entryIds) - 1)
          /\ entriesById' = MapDelete(entriesById, entryIds[Len(entryIds)])
  /\ UNCHANGED <<maxEntries, logged, aged, storeVars>>
  /\ StoringRest

\* the loop is left: the entry is set and its id put in front, store returns
StoreAdd ==
  /\ storePc = "while"
  /\ ~(Len(entryIds) >= maxEntries)
  /\ entriesById' = MapSet(entriesById, pending)
  /\ entryIds' = <<pending[1]>> \o entryIds
  /\ logged' = Append(logged, pending[1])
  /\ storePc' = "idle"
  /\ UNCHANGED <<maxEntries, aged, pending>>
  /\ StoringRest

NextStoring ==
  \/ \E entry \in LogIds \X LogTimestamps : StoreCall(entry)
  \/ StoreLoop
  \/ StoreAdd

SpecStoring == InitStoring /\ [][NextStoring]_vars

\* store has no await: once called it runs on to its end
SpecStoringFair == SpecStoring /\ WF_vars(StoreLoop) /\ WF_vars(StoreAdd)

\* store has returned and the entry is held
StoredPending ==
  /\ storePc = "idle"
  /\ pending \in entriesById
  /\ entryIds # <<>> /\ entryIds[1] = pending[1]

\* C35: store terminates for every maxEntries >= 0 and every content of the
\* storage, and leaves the new entry stored.
C35_StoreTerminates == (storePc = "while") ~> StoredPending

\* ------------------------------------------------------------------- C36
PairedInstants == {0, 1500}
PairedArgs == {0, 1000}

InitPaired == InitSeq /\ backend = "memory"

\* one caller of the six operations of the memory storage on two keys
NextPaired ==
  \/ TickOver(PairedInstants) /\ Apart
  \/ (\E k \in Keys, w \in Windows : MemIncrement(1, k, w)) /\ Apart
  \/ (\E k \in Keys, w \in Windows, now \in PairedArgs : MemAddTimestamp(1, k, w, now))
       /\ Apart
  \/ (\E k \in Keys : MemGet(1, k)) /\ Apart
  \/ (\E k \in Keys : MemReset(1, k)) /\ Apart
  \/ MemCleanup(1) /\ Apart
  \/ Destroy
  \/ Resume(1) /\ Apart

SpecPaired == InitPaired /\ [][NextPaired]_vars

\* C36: in every reachable state of the memory storage the entry map and the
\* expiry map have the same set of keys.
C36_SameKeys ==
  {k \in Keys : storage[k] # 0} = {k \in Keys : expirations[k] # None}

\* a key is held in both maps after another was deleted from both by reset,
\* and a storage emptied by destroy has been filled again
C36_Witness ==
  /\ storage["a"] # 0 /\ expirations["a"] # None
  /\ storage["b"] = 0 /\ expirations["b"] = None
  /\ call[1].op = "reset" /\ call[1].key = "b" /\ call[1].pre # NoEntry
  /\ destroys = 1

\* ------------------------------------------------------------------- C37
\* clear(): both structures are emptied
Clear ==
  /\ entriesById' = {}
  /\ entryIds' = <<>>
  /\ UNCHANGED <<maxEntries, logged, aged>>
  /\ LogRest

\* store (ids may come again), deleteOlderThan and clear in any order
NextLogClear ==
  \/ \E entry \in LogIds \X LogTimestamps : Store(entry)
  \/ \E now \in LogInstants, maxAgeMs \in MaxAges : DeleteOlderThan(now, maxAgeMs)
  \/ Clear

SpecLogClear == InitLog /\ [][NextLogClear]_vars

\* C37: in every reachable state of the logging storage the id list holds no
\* id twice and holds exactly the ids of the by-id map.
C37_ListMatchesMap ==
  /\ Distinct(entryIds)
  /\ Range(entryIds) = {e[1] : e \in entriesById}

====
